---------------------------- MODULE Spec2Model ----------------------------
(***************************************************************************)
(* Model of the node-generation endpoint POST /api/career/generate         *)
(* (src/app/api/career/generate/route.ts): request validation, the two     *)
(* sequential model calls, lenient JSON extraction, shape coercion and     *)
(* strict output validation.                                               *)
(*                                                                         *)
(* Representation.                                                         *)
(*  - A JavaScript string is a sequence of one-character strings.          *)
(*  - A JSON/JavaScript value is a record with the fields k (kind), b, n,  *)
(*    s, a, o; only the field of its kind carries data.  An object is an   *)
(*    ordered sequence of <<key, value>> pairs with distinct keys.         *)
(*  - A raw model text is a sequence of chunks: the serialisation of one   *)
(*    JSON value, prose, white space, or a code-fence marker.              *)
(***************************************************************************)
EXTENDS Integers, Sequences, FiniteSets, TLC

-----------------------------------------------------------------------------
(* JavaScript strings *)

IsWs(c) == c \in {" ", "\n", "\t"}

RECURSIVE trimStart(_)
trimStart(s) == IF s # <<>> /\ IsWs(Head(s)) THEN trimStart(Tail(s)) ELSE s

RECURSIVE trimEnd(_)
trimEnd(s) ==
  IF s # <<>> /\ IsWs(s[Len(s)]) THEN trimEnd(SubSeq(s, 1, Len(s) - 1)) ELSE s

trim(s) == trimEnd(trimStart(s))

startsWith(s, p) == Len(s) >= Len(p) /\ SubSeq(s, 1, Len(p)) = p

includes(s, p) ==
  \E i \in 1..(Len(s) - Len(p) + 1) : SubSeq(s, i, i + Len(p) - 1) = p

UpperChars == <<"A","B","C","D","E","F","G","H","I","J","K","L","M","N","O","P","Q","R","S","T","U","V","W","X","Y","Z">>
LowerChars == <<"a","b","c","d","e","f","g","h","i","j","k","l","m","n","o","p","q","r","s","t","u","v","w","x","y","z">>
DigitChars == <<"0","1","2","3","4","5","6","7","8","9">>

LowerChar(c) ==
  IF \E i \in 1..26 : UpperChars[i] = c
  THEN LowerChars[CHOOSE i \in 1..26 : UpperChars[i] = c]
  ELSE c

toLowerCase(s) == [i \in 1..Len(s) |-> LowerChar(s[i])]

IsAlpha(c) == \E i \in 1..26 : UpperChars[i] = c \/ LowerChars[i] = c
IsDigit(c) == \E i \in 1..10 : DigitChars[i] = c

\* position of the first occurrence of character c in s, 0 when absent
IndexOfChar(s, c) ==
  IF \E i \in 1..Len(s) : s[i] = c
  THEN CHOOSE i \in 1..Len(s) : s[i] = c /\ \A j \in 1..(i - 1) : s[j] # c
  ELSE 0

RECURSIVE NatToString(_)
NatToString(n) ==
  IF n < 10 THEN <<DigitChars[n + 1]>>
  ELSE NatToString(n \div 10) \o <<DigitChars[(n % 10) + 1]>>

-----------------------------------------------------------------------------
(* new URL(url): the part of the WHATWG parser the endpoint depends on.     *)
(* A URL needs a scheme (letter, then letters, digits, +, -, .) before a    *)
(* ':'; an http(s) URL also needs a non-empty host without white space.     *)
(* The result carries ok (FALSE: the constructor throws TypeError) and the  *)
(* lower-cased hostname.  The strings of this model have no userinfo, port, *)
(* percent escapes or backslashes.                                          *)

IsSchemeChar(c) == IsAlpha(c) \/ IsDigit(c) \/ c \in {"+", "-", "."}

RECURSIVE skipSlashes(_)
skipSlashes(s) == IF s # <<>> /\ Head(s) = "/" THEN skipSlashes(Tail(s)) ELSE s

RECURSIVE takeHost(_)
takeHost(s) ==
  IF s = <<>> \/ Head(s) \in {"/", "?", "#"} THEN <<>>
  ELSE <<Head(s)>> \o takeHost(Tail(s))

BadURL == [ok |-> FALSE, hostname |-> <<>>]

\* the host of an http(s) URL
parseHost(host) ==
  IF host = <<>> \/ \E i \in 1..Len(host) : IsWs(host[i])
  THEN BadURL
  ELSE [ok |-> TRUE, hostname |-> host]

\* s is the trimmed input, colon the position of its first ':'
parseScheme(s, colon) ==
  IF colon <= 1 THEN BadURL
  ELSE IF ~IsAlpha(s[1]) \/ \E i \in 1..(colon - 1) : ~IsSchemeChar(s[i])
  THEN BadURL
  ELSE IF toLowerCase(SubSeq(s, 1, colon - 1)) \in {<<"h","t","t","p">>, <<"h","t","t","p","s">>}
  THEN parseHost(toLowerCase(takeHost(skipSlashes(SubSeq(s, colon + 1, Len(s))))))
  ELSE [ok |-> TRUE, hostname |-> <<>>]

ParseURL(input) == parseScheme(trim(input), IndexOfChar(trim(input), ":"))

\* hostname.replace(/^www\./, '')
stripWww(h) == IF startsWith(h, <<"w","w","w",".">>) THEN SubSeq(h, 5, Len(h)) ELSE h

-----------------------------------------------------------------------------
(* JSON / JavaScript values *)

JVal(kind, bb, nn, ss, aa, oo) ==
  [k |-> kind, b |-> bb, n |-> nn, s |-> ss, a |-> aa, o |-> oo]

Undef    == JVal("undef", FALSE, 0, <<>>, <<>>, <<>>)
JNull    == JVal("null", FALSE, 0, <<>>, <<>>, <<>>)
JBool(x) == JVal("bool", x, 0, <<>>, <<>>, <<>>)
JNum(x)  == JVal("num", FALSE, x, <<>>, <<>>, <<>>)
JStr(x)  == JVal("str", FALSE, 0, x, <<>>, <<>>)
JArr(x)  == JVal("arr", FALSE, 0, <<>>, x, <<>>)
JObj(x)  == JVal("obj", FALSE, 0, <<>>, <<>>, x)

IsStr(v) == v.k = "str"
IsArr(v) == v.k = "arr"
IsObj(v) == v.k = "obj"
IsNum(v) == v.k = "num"
IsNullish(v) == v.k \in {"undef", "null"}

\* JavaScript truthiness (if (j), !json, filter(Boolean), a?.b, x ? y : z)
Truthy(v) ==
  CASE v.k = "undef" -> FALSE
    [] v.k = "null"  -> FALSE
    [] v.k = "bool"  -> v.b
    [] v.k = "num"   -> v.n # 0
    [] v.k = "str"   -> v.s # <<>>
    [] OTHER         -> TRUE

HasKey(v, key) == IsObj(v) /\ \E i \in 1..Len(v.o) : v.o[i][1] = key

\* property read v.key / v?.key: undefined on a missing key and on any
\* value that is not an object
Get(v, key) ==
  IF HasKey(v, key)
  THEN v.o[CHOOSE i \in 1..Len(v.o) : v.o[i][1] = key][2]
  ELSE Undef

\* a ?? b
Coalesce(x, y) == IF IsNullish(x) THEN y ELSE x

RECURSIVE stringify(_)
RECURSIVE stringifyItems(_)
RECURSIVE stringifyPairs(_)
\* JSON.stringify of a parsed JSON value (the strings of this model need no
\* escaping)
stringify(v) ==
  CASE v.k = "null" -> <<"n","u","l","l">>
    [] v.k = "undef" -> <<"n","u","l","l">>
    [] v.k = "bool" -> IF v.b THEN <<"t","r","u","e">> ELSE <<"f","a","l","s","e">>
    [] v.k = "num"  -> NatToString(v.n)
    [] v.k = "str"  -> <<"\"">> \o v.s \o <<"\"">>
    [] v.k = "arr"  -> <<"[">> \o stringifyItems(v.a) \o <<"]">>
    [] OTHER        -> <<"{">> \o stringifyPairs(v.o) \o <<"}">>
stringifyItems(items) ==
  IF items = <<>> THEN <<>>
  ELSE IF Len(items) = 1 THEN stringify(items[1])
  ELSE stringify(items[1]) \o <<",">> \o stringifyItems(Tail(items))
stringifyPairs(pairs) ==
  IF pairs = <<>> THEN <<>>
  ELSE LET one == <<"\"">> \o pairs[1][1] \o <<"\"", ":">> \o stringify(pairs[1][2])
       IN  IF Len(pairs) = 1 THEN one
           ELSE one \o <<",">> \o stringifyPairs(Tail(pairs))

-----------------------------------------------------------------------------
(* Raw model text.  A text is a sequence of chunks:                         *)
(*   json      the serialisation of the JSON value v                        *)
(*   prose     words without braces or backticks, e.g. "Here you go:"       *)
(*   proseL    words with one opening brace,      e.g. "see {x"             *)
(*   proseR    words with one closing brace,      e.g. "y} ok"              *)
(*   ws        white space                                                  *)
(*   fence     the marker ```                                               *)
(*   fencejson the marker ```json                                           *)
(* Strings inside JSON values contain no braces and no backticks.           *)

Chunk(kind, val) == [c |-> kind, v |-> val]
CJson(val) == Chunk("json", val)
CProse     == Chunk("prose", JNull)
CProseL    == Chunk("proseL", JNull)
CProseR    == Chunk("proseR", JNull)
CWs        == Chunk("ws", JNull)
CFence     == Chunk("fence", JNull)
CFenceJson == Chunk("fencejson", JNull)

RECURSIVE stripWsStart(_)
stripWsStart(t) ==
  IF t # <<>> /\ Head(t).c = "ws" THEN stripWsStart(Tail(t)) ELSE t

RECURSIVE stripWsEnd(_)
stripWsEnd(t) ==
  IF t # <<>> /\ t[Len(t)].c = "ws"
  THEN stripWsEnd(SubSeq(t, 1, Len(t) - 1)) ELSE t

\* String.prototype.trim on a text
trimText(t) == stripWsEnd(stripWsStart(t))

\* JSON.parse(s) does not throw: the text is exactly one JSON value, with
\* optional white space around it
parsesAsJson(t) == LET core == trimText(t)
                   IN  Len(core) = 1 /\ core[1].c = "json"

\* try { return JSON.parse(s) } catch { return null }
tryParseJson(t) == IF parsesAsJson(t) THEN trimText(t)[1].v ELSE JNull

IsFenceChunk(ch) == ch.c \in {"fence", "fencejson"}

\* index of the first chunk after position i that contains ```, 0 if none
NextFence(t, i) ==
  IF \E j \in (i + 1)..Len(t) : IsFenceChunk(t[j])
  THEN CHOOSE j \in (i + 1)..Len(t) :
         IsFenceChunk(t[j]) /\ \A m \in (i + 1)..(j - 1) : ~IsFenceChunk(t[m])
  ELSE 0

\* text.match(/```json\s*([\s\S]*?)```/i): matched flag and capture group 1
matchFenceJson(t) ==
  LET opens == {i \in 1..Len(t) : t[i].c = "fencejson"}
      i == IF opens = {} THEN 0 ELSE CHOOSE x \in opens : \A y \in opens : x <= y
      j == IF i = 0 THEN 0 ELSE NextFence(t, i)
  IN  IF j = 0 THEN [matched |-> FALSE, group |-> <<>>]
      ELSE [matched |-> TRUE, group |-> stripWsStart(SubSeq(t, i + 1, j - 1))]

\* text.match(/```\s*([\s\S]*?)```/): a ```json marker also starts with ```,
\* its letters then belong to the captured group
matchFenceAny(t) ==
  LET opens == {i \in 1..Len(t) : IsFenceChunk(t[i])}
      i == IF opens = {} THEN 0 ELSE CHOOSE x \in opens : \A y \in opens : x <= y
      j == IF i = 0 THEN 0 ELSE NextFence(t, i)
      inner == SubSeq(t, i + 1, j - 1)
  IN  IF j = 0 THEN [matched |-> FALSE, group |-> <<>>]
      ELSE IF t[i].c = "fencejson"
           THEN [matched |-> TRUE, group |-> <<CProse>> \o inner]
           ELSE [matched |-> TRUE, group |-> stripWsStart(inner)]

RECURSIVE HasBrace(_)
\* the serialisation of v contains a brace
HasBrace(v) ==
  CASE v.k = "obj" -> TRUE
    [] v.k = "arr" -> \E i \in 1..Len(v.a) : HasBrace(v.a[i])
    [] OTHER       -> FALSE

RECURSIVE BraceSlice(_)
\* JSON.parse of the serialisation of v cut from its first '{' to its last
\* '}': v itself for an object; for an array the cut lies inside its
\* elements and parses only when one single element holds every brace
BraceSlice(v) ==
  IF v.k = "obj" THEN v
  ELSE IF v.k = "arr"
  THEN LET hit == {i \in 1..Len(v.a) : HasBrace(v.a[i])}
       IN  IF Cardinality(hit) = 1
           THEN BraceSlice(v.a[CHOOSE i \in hit : TRUE])
           ELSE JNull
  ELSE JNull

HasOpenBrace(ch)  == ch.c = "proseL" \/ (ch.c = "json" /\ HasBrace(ch.v))
HasCloseBrace(ch) == ch.c = "proseR" \/ (ch.c = "json" /\ HasBrace(ch.v))

\* tryParseJson(text.slice(text.indexOf('{'), text.lastIndexOf('}') + 1))
\* when start >= 0 && end > start, else null.  A cut that starts or ends in
\* prose, or that spans more than one chunk, is never valid JSON.
braceParse(t) ==
  LET lefts  == {i \in 1..Len(t) : HasOpenBrace(t[i])}
      rights == {i \in 1..Len(t) : HasCloseBrace(t[i])}
      start  == CHOOSE x \in lefts : \A y \in lefts : x <= y
      end    == CHOOSE x \in rights : \A y \in rights : x >= y
  IN  IF lefts = {} \/ rights = {} THEN JNull
      ELSE IF start = end /\ t[start].c = "json" THEN BraceSlice(t[start].v)
      ELSE JNull

\* text.match(/```json.../i) || text.match(/```.../)
FenceOf(t) ==
  IF matchFenceJson(t).matched THEN matchFenceJson(t) ELSE matchFenceAny(t)

\* if (fence?.[1]) tryParseJson(fence[1].trim())
fenceParse(fence) ==
  IF fence.matched /\ fence.group # <<>>
  THEN tryParseJson(trimText(fence.group)) ELSE JNull

\* if (j) return j, for the fenced value and then for the brace slice
firstTruthy(j1, j2) ==
  IF Truthy(j1) THEN j1
  ELSE IF Truthy(j2) THEN j2
  ELSE JNull

extractJson(t) == firstTruthy(fenceParse(FenceOf(t)), braceParse(t))

coerceToNodeShape(maybe) ==
  IF ~Truthy(maybe) THEN JNull
  ELSE IF Truthy(Get(maybe, <<"n","o","d","e">>)) THEN maybe
  ELSE IF IsStr(Get(maybe, <<"t","i","t","l","e">>)) /\ IsStr(Get(maybe, <<"d","e","s","c","r","i","p","t","i","o","n">>))
       THEN JObj(<< <<<<"n","o","d","e">>, maybe>> >>)
       ELSE JNull

\* tryParseJson(raw) ?? extractJson(raw) ?? coerceToNodeShape(tryParseJson(raw))
lenientParse(raw) ==
  Coalesce(Coalesce(tryParseJson(raw), extractJson(raw)),
           coerceToNodeShape(tryParseJson(raw)))

-----------------------------------------------------------------------------
(* Shape coercion (Step 5) *)

\* 'r_' + Math.random().toString(36).slice(2, 10): random ids are modelled
\* as fresh names, the n-th id drawn while a request is normalised is r_n
uid(n) == <<"r","_">> \o NatToString(n)

T_course  == <<"c","o","u","r","s","e">>
T_video   == <<"v","i","d","e","o">>
T_website == <<"w","e","b","s","i","t","e">>
T_tool    == <<"t","o","o","l">>
ResourceTypes == {T_course, T_video, T_website, T_tool}
Difficulties  == {<<"b","e","g","i","n","n","e","r">>, <<"i","n","t","e","r","m","e","d","i","a","t","e">>, <<"a","d","v","a","n","c","e","d">>}

\* url is a string value or Undef
\* u is url.toLowerCase()
inferTypeFromLower(u) ==
  IF includes(u, <<"y","o","u","t","u","b","e",".","c","o","m">>) \/ includes(u, <<"y","o","u","t","u",".","b","e">>)
     \/ includes(u, <<"v","i","m","e","o",".","c","o","m">>)
  THEN T_video
  ELSE IF includes(u, <<"c","o","u","r","s","e","r","a",".","o","r","g">>) \/ includes(u, <<"u","d","e","m","y",".","c","o","m">>)
          \/ includes(u, <<"e","d","x",".","o","r","g">>) \/ includes(u, <<"c","l","a","s","s">>)
          \/ includes(u, <<"c","o","u","r","s","e">>)
  THEN T_course
  ELSE IF includes(u, <<"g","i","t","h","u","b",".","c","o","m">>) \/ includes(u, <<"n","p","m","j","s",".","c","o","m">>)
          \/ includes(u, <<"t","o","o","l">>)
  THEN T_tool
  ELSE T_website

inferTypeFromUrl(url) ==
  IF ~Truthy(url) THEN T_website ELSE inferTypeFromLower(toLowerCase(url.s))

RECURSIVE filterBoolean(_)
\* strings.filter(Boolean): drops the empty strings
filterBoolean(strs) ==
  IF strs = <<>> THEN <<>>
  ELSE (IF Head(strs) = <<>> THEN <<>> ELSE <<Head(strs)>>)
       \o filterBoolean(Tail(strs))

\* variant: every element is serialised, strings included
toStringArray_stringifyAll(x) ==
  IF ~Truthy(x) THEN <<>>
  ELSE IF IsArr(x)
  THEN filterBoolean([i \in 1..Len(x.a) |-> stringify(x.a[i])])
  ELSE IF IsStr(x) THEN <<x.s>>
  ELSE <<>>

\* the result is a sequence of JavaScript strings
toStringArray(x) ==
  IF ~Truthy(x) THEN <<>>
  ELSE IF IsArr(x)
  THEN filterBoolean(
         [i \in 1..Len(x.a) |->
            IF IsStr(x.a[i]) THEN x.a[i].s
            ELSE IF IsStr(Get(x.a[i], <<"l","a","b","e","l">>)) THEN Get(x.a[i], <<"l","a","b","e","l">>).s
            ELSE stringify(x.a[i])])
  ELSE IF IsStr(x) THEN <<x.s>>
  ELSE <<>>

\* outcome of one normalizeResource call: a resource, null, or an exception;
\* ids is the number of ids drawn so far
ResOutcome(kind, val, n) == [kind |-> kind, res |-> val, ids |-> n]

\* typeof anyRes === 'string'
stringResource(anyRes, maybeUrl, r) ==
  ResOutcome("res",
    JObj(<< <<<<"i","d">>, JStr(uid(r))>>,
            <<<<"t","i","t","l","e">>, IF Truthy(maybeUrl) THEN JStr(<<"R","e","s","o","u","r","c","e">>)
                         ELSE IF Truthy(anyRes) THEN anyRes
                         ELSE JStr(<<"R","e","s","o","u","r","c","e">>)>>,
            <<<<"d","e","s","c","r","i","p","t","i","o","n">>, JStr(<<>>)>>,
            <<<<"t","y","p","e">>, JStr(inferTypeFromUrl(maybeUrl))>>,
            <<<<"u","r","l">>, maybeUrl>> >>),
    r + 1)

resourceUrl(anyRes) ==
  IF IsStr(Get(anyRes, <<"u","r","l">>)) THEN Get(anyRes, <<"u","r","l">>)
  ELSE IF IsStr(Get(anyRes, <<"l","i","n","k">>)) THEN Get(anyRes, <<"l","i","n","k">>)
  ELSE Undef

\* the title falls through to new URL(url), which throws TypeError on a
\* string that is no URL
titleThrows(anyRes, url) ==
  /\ ~IsStr(Get(anyRes, <<"t","i","t","l","e">>))
  /\ ~IsStr(Get(anyRes, <<"n","a","m","e">>))
  /\ ~IsStr(Get(anyRes, <<"l","a","b","e","l">>))
  /\ Truthy(url)
  /\ ~ParseURL(url.s).ok

resourceTitle(anyRes, url) ==
  IF IsStr(Get(anyRes, <<"t","i","t","l","e">>)) THEN Get(anyRes, <<"t","i","t","l","e">>)
  ELSE IF IsStr(Get(anyRes, <<"n","a","m","e">>)) THEN Get(anyRes, <<"n","a","m","e">>)
  ELSE IF IsStr(Get(anyRes, <<"l","a","b","e","l">>)) THEN Get(anyRes, <<"l","a","b","e","l">>)
  ELSE IF Truthy(url) THEN JStr(stripWww(ParseURL(url.s).hostname))
  ELSE JStr(<<"R","e","s","o","u","r","c","e">>)

resourceDescription(anyRes) ==
  IF IsStr(Get(anyRes, <<"d","e","s","c","r","i","p","t","i","o","n">>)) THEN Get(anyRes, <<"d","e","s","c","r","i","p","t","i","o","n">>)
  ELSE IF IsStr(Get(anyRes, <<"s","u","m","m","a","r","y">>)) THEN Get(anyRes, <<"s","u","m","m","a","r","y">>)
  ELSE JStr(<<>>)

\* variant: the lower-cased type is kept whatever word it is
resourceType_anyWord(anyRes, url) ==
  LET raw == IF IsStr(Get(anyRes, <<"t","y","p","e">>))
             THEN toLowerCase(Get(anyRes, <<"t","y","p","e">>).s) ELSE <<>>
  IN  IF raw # <<>> THEN raw ELSE inferTypeFromUrl(url)

resourceType(anyRes, url) ==
  LET raw == IF IsStr(Get(anyRes, <<"t","y","p","e">>))
             THEN toLowerCase(Get(anyRes, <<"t","y","p","e">>).s) ELSE <<>>
  IN  IF raw \in ResourceTypes THEN raw ELSE inferTypeFromUrl(url)

resourceDifficulty(anyRes) ==
  LET d == IF IsStr(Get(anyRes, <<"d","i","f","f","i","c","u","l","t","y">>))
           THEN JStr(toLowerCase(Get(anyRes, <<"d","i","f","f","i","c","u","l","t","y">>).s)) ELSE Undef
  IN  IF IsStr(d) /\ d.s \in Difficulties THEN d ELSE Undef

resourceDuration(anyRes) ==
  IF IsStr(Get(anyRes, <<"d","u","r","a","t","i","o","n">>)) THEN Get(anyRes, <<"d","u","r","a","t","i","o","n">>) ELSE Undef

\* anyRes && typeof anyRes === 'object'
objectResource(anyRes, url, r) ==
  IF titleThrows(anyRes, url)
  THEN ResOutcome("throw", JNull, r)
  ELSE ResOutcome("res",
         JObj(<< <<<<"i","d">>, IF IsStr(Get(anyRes, <<"i","d">>))
                           THEN Get(anyRes, <<"i","d">>) ELSE JStr(uid(r))>>,
                 <<<<"t","i","t","l","e">>, resourceTitle(anyRes, url)>>,
                 <<<<"d","e","s","c","r","i","p","t","i","o","n">>, resourceDescription(anyRes)>>,
                 <<<<"t","y","p","e">>, JStr(resourceType(anyRes, url))>>,
                 <<<<"u","r","l">>, url>>,
                 <<<<"d","i","f","f","i","c","u","l","t","y">>, resourceDifficulty(anyRes)>>,
                 <<<<"d","u","r","a","t","i","o","n">>, resourceDuration(anyRes)>> >>),
         IF IsStr(Get(anyRes, <<"i","d">>)) THEN r ELSE r + 1)

normalizeResource(anyRes, r) ==
  IF IsStr(anyRes)
  THEN stringResource(anyRes,
         IF startsWith(anyRes.s, <<"h","t","t","p">>) THEN anyRes ELSE Undef, r)
  ELSE IF IsObj(anyRes) \/ IsArr(anyRes)
  THEN objectResource(anyRes, resourceUrl(anyRes), r)
  ELSE ResOutcome("null", JNull, r)

RECURSIVE mapNormalizeResource(_, _)

\* .filter(Boolean): a null result is dropped
keepResource(one, rest) ==
  [threw |-> rest.threw,
   out   |-> (IF one.kind = "null" THEN <<>> ELSE <<one.res>>) \o rest.out]

\* the first exception ends the map
mapRest(one, tail) ==
  IF one.kind = "throw"
  THEN [threw |-> TRUE, out |-> <<>>]
  ELSE keepResource(one, mapNormalizeResource(tail, one.ids))

\* rawRes.map(normalizeResource).filter(Boolean), r ids drawn so far
mapNormalizeResource(items, r) ==
  IF items = <<>> THEN [threw |-> FALSE, out |-> <<>>]
  ELSE mapRest(normalizeResource(Head(items), r), Tail(items))

\* xs.slice(0, n)
sliceTo(xs, n) == SubSeq(xs, 1, IF Len(xs) < n THEN Len(xs) ELSE n)

MaxOptions   == 6
MaxResources == 8

\* variant: the options are passed on without the slice
optionsClamped_all(opts) == opts

optionsClamped(opts) == sliceTo(opts, MaxOptions)
resourcesClamped(res) == sliceTo(res, MaxResources)

NodeOf(title, description, options, resources) ==
  JObj(<< <<<<"n","o","d","e">>,
            JObj(<< <<<<"t","i","t","l","e">>, JStr(title)>>,
                    <<<<"d","e","s","c","r","i","p","t","i","o","n">>, JStr(description)>>,
                    <<<<"o","p","t","i","o","n","s">>, JArr([i \in 1..Len(options) |-> JStr(options[i])])>>,
                    <<<<"r","e","s","o","u","r","c","e","s">>, JArr(resources)>> >>)>> >>)

\* json?.node ? json.node : json
candidateOf(json) ==
  IF Truthy(Get(json, <<"n","o","d","e">>)) THEN Get(json, <<"n","o","d","e">>) ELSE json

nodeTitle(t) ==
  IF IsStr(t) /\ Truthy(JStr(trim(t.s))) THEN trim(t.s) ELSE <<"N","e","x","t"," ","S","t","e","p">>

nodeDescription(dsc) ==
  IF IsStr(dsc) THEN trim(dsc.s) ELSE <<"C","o","n","t","i","n","u","e"," ","e","x","p","l","o","r","i","n","g"," ","t","h","i","s"," ","p","a","t","h",".">>

rawResOf(resources) == IF IsArr(resources) THEN resources.a ELSE <<>>

\* the node built from the candidate and its mapped resources
normalizeCandidate(candidate, mapped) ==
  IF mapped.threw
  THEN [threw |-> TRUE, value |-> JNull]
  ELSE [threw |-> FALSE,
        value |-> NodeOf(nodeTitle(Get(candidate, <<"t","i","t","l","e">>)),
                         nodeDescription(Get(candidate, <<"d","e","s","c","r","i","p","t","i","o","n">>)),
                         optionsClamped(toStringArray(Get(candidate, <<"o","p","t","i","o","n","s">>))),
                         resourcesClamped(mapped.out))]

\* normalizeNodeJson when r ids have been drawn before the call
normalizeNodeJsonFrom(json, r) ==
  normalizeCandidate(
    candidateOf(json),
    mapNormalizeResource(rawResOf(Get(candidateOf(json), <<"r","e","s","o","u","r","c","e","s">>)), r))

\* result: threw (an exception left the function) and value ({node: ...})
normalizeNodeJson(json) == normalizeNodeJsonFrom(json, 0)

-----------------------------------------------------------------------------
(* Strict output schema (Step 6) *)

\* z.string().url(): the string is accepted when new URL(s) succeeds
zodUrl(v) == IsStr(v) /\ ParseURL(v.s).ok

\* z.string().optional() and friends: undefined passes
zodOptional(v, ok) == v.k = "undef" \/ ok

zodResource(v) ==
  /\ IsObj(v)
  /\ IsStr(Get(v, <<"i","d">>))
  /\ IsStr(Get(v, <<"t","i","t","l","e">>))
  /\ zodOptional(Get(v, <<"d","e","s","c","r","i","p","t","i","o","n">>), IsStr(Get(v, <<"d","e","s","c","r","i","p","t","i","o","n">>)))
  /\ IsStr(Get(v, <<"t","y","p","e">>)) /\ Get(v, <<"t","y","p","e">>).s \in ResourceTypes
  /\ zodOptional(Get(v, <<"u","r","l">>), zodUrl(Get(v, <<"u","r","l">>)))
  /\ zodOptional(Get(v, <<"d","i","f","f","i","c","u","l","t","y">>),
                 IsStr(Get(v, <<"d","i","f","f","i","c","u","l","t","y">>))
                 /\ Get(v, <<"d","i","f","f","i","c","u","l","t","y">>).s \in Difficulties)
  /\ zodOptional(Get(v, <<"d","u","r","a","t","i","o","n">>), IsStr(Get(v, <<"d","u","r","a","t","i","o","n">>)))

\* OutputSchema.parse(v) does not throw
OutputSchema(v) ==
  LET node == Get(v, <<"n","o","d","e">>)
      opts == Get(node, <<"o","p","t","i","o","n","s">>)
      res  == Get(node, <<"r","e","s","o","u","r","c","e","s">>)
  IN  /\ IsObj(v) /\ IsObj(node)
      /\ IsStr(Get(node, <<"t","i","t","l","e">>)) /\ Len(Get(node, <<"t","i","t","l","e">>).s) >= 1
      /\ IsStr(Get(node, <<"d","e","s","c","r","i","p","t","i","o","n">>)) /\ Len(Get(node, <<"d","e","s","c","r","i","p","t","i","o","n">>).s) >= 1
      /\ zodOptional(opts, IsArr(opts) /\ \A i \in 1..Len(opts.a) : IsStr(opts.a[i]))
      /\ zodOptional(res, IsArr(res) /\ \A i \in 1..Len(res.a) : zodResource(res.a[i]))

-----------------------------------------------------------------------------
(* Input schema *)

\* z.array(z.string())
zodStringArray(v) == IsArr(v) /\ \A i \in 1..Len(v.a) : IsStr(v.a[i])

ProfileSchema(v) ==
  /\ IsObj(v)
  /\ IsStr(Get(v, <<"i","d">>))
  /\ IsStr(Get(v, <<"c","u","r","r","e","n","t","S","i","t","u","a","t","i","o","n">>))
  /\ zodStringArray(Get(v, <<"i","n","t","e","r","e","s","t","s">>))
  /\ zodOptional(Get(v, <<"e","x","p","e","r","i","e","n","c","e">>), IsStr(Get(v, <<"e","x","p","e","r","i","e","n","c","e">>)))
  /\ zodOptional(Get(v, <<"g","o","a","l","s">>), IsStr(Get(v, <<"g","o","a","l","s">>)))

PathNodeSchema(v) ==
  /\ IsObj(v)
  /\ IsStr(Get(v, <<"i","d">>))
  /\ IsStr(Get(v, <<"t","i","t","l","e">>))
  /\ IsStr(Get(v, <<"d","e","s","c","r","i","p","t","i","o","n">>))
  /\ zodStringArray(Get(v, <<"o","p","t","i","o","n","s">>))
  /\ IsArr(Get(v, <<"r","e","s","o","u","r","c","e","s">>))
  /\ IsNum(Get(v, <<"l","e","v","e","l">>))
  /\ zodOptional(Get(v, <<"p","a","r","e","n","t","I","d">>), IsStr(Get(v, <<"p","a","r","e","n","t","I","d">>)))

InitialSchema(v) ==
  /\ IsObj(v)
  /\ Get(v, <<"k","i","n","d">>) = JStr(<<"i","n","i","t","i","a","l">>)
  /\ ProfileSchema(Get(v, <<"p","r","o","f","i","l","e">>))

NextNodeSchema(v) ==
  /\ IsObj(v)
  /\ Get(v, <<"k","i","n","d">>) = JStr(<<"n","e","x","t">>)
  /\ ProfileSchema(Get(v, <<"u","s","e","r","P","r","o","f","i","l","e">>))
  /\ IsArr(Get(v, <<"p","a","t","h","H","i","s","t","o","r","y">>))
  /\ \A i \in 1..Len(Get(v, <<"p","a","t","h","H","i","s","t","o","r","y">>).a) :
        PathNodeSchema(Get(v, <<"p","a","t","h","H","i","s","t","o","r","y">>).a[i])
  /\ PathNodeSchema(Get(v, <<"c","u","r","r","e","n","t","N","o","d","e">>))

\* variant: only the discriminator is checked
RequestSchema_kindOnly(v) ==
  IsObj(v) /\ Get(v, <<"k","i","n","d">>) \in {JStr(<<"i","n","i","t","i","a","l">>), JStr(<<"n","e","x","t">>)}

\* RequestSchema.parse(body) does not throw
RequestSchema(v) == InitialSchema(v) \/ NextNodeSchema(v)

-----------------------------------------------------------------------------
(* Inputs: request bodies *)

\* object literal: the pairs whose value is Undef are left out
Obj(pairs) == JObj(SelectSeq(pairs, LAMBDA p : p[2].k # "undef"))

Strs(seq) == JArr([i \in 1..Len(seq) |-> JStr(seq[i])])

ProfileOk == Obj(<< <<<<"i","d">>, JStr(<<"1">>)>>,
                    <<<<"c","u","r","r","e","n","t","S","i","t","u","a","t","i","o","n">>, JStr(<<"s","t","u","d","e","n","t">>)>>,
                    <<<<"i","n","t","e","r","e","s","t","s">>, Strs(<<<<"m","u","s","i","c">>>>)>> >>)
ProfileFull == Obj(<< <<<<"i","d">>, JStr(<<"1">>)>>,
                      <<<<"c","u","r","r","e","n","t","S","i","t","u","a","t","i","o","n">>, JStr(<<"s","t","u","d","e","n","t">>)>>,
                      <<<<"i","n","t","e","r","e","s","t","s">>, Strs(<<>>)>>,
                      <<<<"e","x","p","e","r","i","e","n","c","e">>, JStr(<<"n","o","n","e">>)>>,
                      <<<<"g","o","a","l","s">>, JStr(<<"b","a","n","d">>)>> >>)
ProfileNoInterests == Obj(<< <<<<"i","d">>, JStr(<<"1">>)>>,
                             <<<<"c","u","r","r","e","n","t","S","i","t","u","a","t","i","o","n">>, JStr(<<"s","t","u","d","e","n","t">>)>> >>)
ProfileBadInterests == Obj(<< <<<<"i","d">>, JStr(<<"1">>)>>,
                              <<<<"c","u","r","r","e","n","t","S","i","t","u","a","t","i","o","n">>, JStr(<<"s","t","u","d","e","n","t">>)>>,
                              <<<<"i","n","t","e","r","e","s","t","s">>, JArr(<<JNum(1)>>)>> >>)
ProfileBadGoals == Obj(<< <<<<"i","d">>, JStr(<<"1">>)>>,
                          <<<<"c","u","r","r","e","n","t","S","i","t","u","a","t","i","o","n">>, JStr(<<"s","t","u","d","e","n","t">>)>>,
                          <<<<"i","n","t","e","r","e","s","t","s">>, Strs(<<>>)>>,
                          <<<<"g","o","a","l","s">>, JNum(7)>> >>)

PathNodeWith(level, parentId) ==
  Obj(<< <<<<"i","d">>, JStr(<<"n","0">>)>>,
         <<<<"t","i","t","l","e">>, JStr(<<"R","o","o","t">>)>>,
         <<<<"d","e","s","c","r","i","p","t","i","o","n">>, JStr(<<"S","t","a","r","t">>)>>,
         <<<<"o","p","t","i","o","n","s">>, Strs(<<<<"x">>>>)>>,
         <<<<"r","e","s","o","u","r","c","e","s">>, JArr(<<>>)>>,
         <<<<"l","e","v","e","l">>, level>>,
         <<<<"p","a","r","e","n","t","I","d">>, parentId>> >>)
PathNodeOk  == PathNodeWith(JNum(0), Undef)
PathNodeKid == PathNodeWith(JNum(1), JStr(<<"n","0">>))
PathNodeNoLevel   == PathNodeWith(Undef, Undef)
PathNodeBadParent == PathNodeWith(JNum(1), JNum(0))

BodyInitial(kind, profile) ==
  Obj(<< <<<<"k","i","n","d">>, kind>>, <<<<"p","r","o","f","i","l","e">>, profile>> >>)
BodyNext(kind, profile, history, current) ==
  Obj(<< <<<<"k","i","n","d">>, kind>>, <<<<"u","s","e","r","P","r","o","f","i","l","e">>, profile>>,
         <<<<"p","a","t","h","H","i","s","t","o","r","y">>, history>>, <<<<"c","u","r","r","e","n","t","N","o","d","e">>, current>> >>)

K_initial == JStr(<<"i","n","i","t","i","a","l">>)
K_next    == JStr(<<"n","e","x","t">>)

ValidBodyValues ==
  { BodyInitial(K_initial, ProfileOk),
    BodyNext(K_next, ProfileFull, JArr(<<PathNodeOk, PathNodeKid>>), PathNodeKid) }

MalformedBodyValues ==
  { BodyInitial(JStr(<<"f","i","r","s","t">>), ProfileOk),          \* wrong kind
    BodyInitial(Undef, ProfileOk),                    \* missing kind
    BodyInitial(JNum(1), ProfileOk),
    BodyInitial(K_initial, Undef),                    \* missing profile
    BodyInitial(K_initial, ProfileNoInterests),
    BodyInitial(K_initial, ProfileBadInterests),
    BodyInitial(K_initial, ProfileBadGoals),
    BodyInitial(K_next, ProfileOk),                   \* next without its fields
    BodyNext(K_initial, ProfileOk, JArr(<<>>), PathNodeOk),
    BodyNext(K_next, ProfileNoInterests, JArr(<<>>), PathNodeOk),
    BodyNext(K_next, ProfileOk, JStr(<<"n","0">>), PathNodeOk),
    BodyNext(K_next, ProfileOk, JArr(<<PathNodeNoLevel>>), PathNodeOk),
    BodyNext(K_next, ProfileOk, JArr(<<PathNodeOk>>), PathNodeBadParent),
    BodyNext(K_next, ProfileOk, JArr(<<PathNodeOk>>), Undef),
    BodyNext(K_next, ProfileOk, Undef, PathNodeOk),
    JArr(<<>>), JNum(5), JNull, Obj(<<>>) }

\* request body texts; the last two are not JSON at all
Bodies ==
  { <<CJson(v)>> : v \in ValidBodyValues \cup MalformedBodyValues }
  \cup { <<CProse>>, <<>> }

-----------------------------------------------------------------------------
(* Inputs: raw model texts *)

\* lengths of the long option and resource lists the model may send
LongOptions   == 7
LongResources == 9

ResourceInputs ==
  { JStr(<<"h","t","t","p",":","/","/","y","o","u","t","u",".","b","e","/","a">>),
    JStr(<<"h","t","t","p","s",":","/","/","a",".","i","o","/","c","o","u","r","s","e">>),
    JStr(<<"h","t","t","p","x">>),
    JStr(<<"a","b","c">>),
    JStr(<<>>),
    JNull, JNum(5), JBool(TRUE), JArr(<<>>),
    Obj(<<>>),
    Obj(<< <<<<"u","r","l">>, JStr(<<"h","t","t","p","s",":","/","/","w","w","w",".","a",".","i","o","/","x">>)>> >>),
    Obj(<< <<<<"u","r","l">>, JStr(<<"a","b","c">>)>> >>),
    Obj(<< <<<<"u","r","l">>, JStr(<<>>)>> >>),
    Obj(<< <<<<"l","i","n","k">>, JStr(<<"a"," ","b">>)>>, <<<<"n","a","m","e">>, JStr(<<"N">>)>> >>),
    Obj(<< <<<<"n","a","m","e">>, JStr(<<"I","n","t","r","o">>)>>,
           <<<<"l","i","n","k">>, JStr(<<"h","t","t","p","s",":","/","/","c","o","u","r","s","e","r","a",".","o","r","g","/","m","l">>)>> >>),
    Obj(<< <<<<"t","i","t","l","e">>, JStr(<<>>)>>, <<<<"u","r","l">>, JStr(<<"H","T","T","P",":","/","/","X",".","i","o">>)>> >>),
    Obj(<< <<<<"u","r","l">>, JNum(5)>>, <<<<"l","i","n","k">>, JStr(<<"h","t","t","p","s",":","/","/","g","i","t","h","u","b",".","c","o","m","/","x">>)>> >>),
    Obj(<< <<<<"i","d">>, JStr(<<"r","1">>)>>, <<<<"l","a","b","e","l">>, JStr(<<"L">>)>>,
           <<<<"s","u","m","m","a","r","y">>, JStr(<<"S">>)>>, <<<<"t","y","p","e">>, JStr(<<"V","I","D","E","O">>)>>,
           <<<<"d","i","f","f","i","c","u","l","t","y">>, JStr(<<"B","e","g","i","n","n","e","r">>)>>,
           <<<<"d","u","r","a","t","i","o","n">>, JStr(<<"2","h">>)>> >>),
    Obj(<< <<<<"t","i","t","l","e">>, JStr(<<"T">>)>>, <<<<"t","y","p","e">>, JStr(<<"b","o","o","k">>)>>,
           <<<<"d","i","f","f","i","c","u","l","t","y">>, JStr(<<"e","x","p","e","r","t">>)>>, <<<<"d","u","r","a","t","i","o","n">>, JNum(2)>>,
           <<<<"d","e","s","c","r","i","p","t","i","o","n">>, JStr(<<"D">>)>>, <<<<"i","d">>, JNum(4)>> >>),
    Obj(<< <<<<"t","y","p","e">>, JNum(5)>>, <<<<"u","r","l">>, JStr(<<"m","a","i","l","t","o",":","x">>)>> >>) }

\* what the type field of a resource object may hold
TypeInputs ==
  { Undef, JNum(5), JStr(<<>>), JStr(<<"b","o","o","k">>), JStr(<<"V","i","d","e","o">>),
    JStr(<<"T","O","O","L">>), JStr(<<"c","o","u","r","s","e">>) }

\* resource objects that carry a URL, under url or under link
TypedResourceInputs ==
  { Obj(<< <<<<"t","y","p","e">>, t>>, <<<<"u","r","l">>, JStr(<<"h","t","t","p","s",":","/","/","y","o","u","t","u",".","b","e","/","a">>)>> >>) :
      t \in TypeInputs }
  \cup { Obj(<< <<<<"l","i","n","k">>, JStr(<<"h","t","t","p","s",":","/","/","a",".","i","o","/","x">>)>>, <<<<"t","y","p","e">>, t>> >>) :
      t \in TypeInputs }

TitleInputs == { Undef, JStr(<<>>), JStr(<<" "," ">>), JStr(<<" ","A"," ">>), JNum(3) }
DescriptionInputs == { Undef, JStr(<<>>), JStr(<<" ">>), JStr(<<"B"," ">>), JNum(3) }

OptionsInputs ==
  { Undef, JStr(<<"s","o","l","o">>), JArr(<<>>), JNum(2),
    JArr([i \in 1..LongOptions |-> JStr(<<"o","p","t">> \o NatToString(i))]),
    JArr(<< JStr(<<"a">>), JStr(<<>>), Obj(<< <<<<"l","a","b","e","l">>, JStr(<<"L">>)>> >>),
            Obj(<< <<<<"l","a","b","e","l">>, JStr(<<>>)>> >>),
            Obj(<< <<<<"x">>, JNum(1)>> >>), JNull, JNum(5), JBool(FALSE) >>) }

ResourcesInputs ==
  { Undef, JStr(<<"h","t","t","p",":","/","/","a",".","i","o">>),
    JArr([i \in 1..LongResources |-> JStr(<<"r","e","s">> \o NatToString(i))]),
    JArr([i \in 1..LongResources |->
            IF i = LongResources THEN Obj(<< <<<<"u","r","l">>, JStr(<<"a","b","c">>)>> >>)
            ELSE JStr(<<"h","t","t","p",":","/","/","b",".","i","o">>)]),
    JArr(<< JNull, JStr(<<"a","b","c">>), JNum(1),
            Obj(<< <<<<"n","a","m","e">>, JStr(<<"N">>)>> >>) >>) }
  \cup { JArr(<<r>>) : r \in ResourceInputs \cup TypedResourceInputs }

NodeInput(t, d, o, r) ==
  Obj(<< <<<<"t","i","t","l","e">>, t>>, <<<<"d","e","s","c","r","i","p","t","i","o","n">>, d>>,
         <<<<"o","p","t","i","o","n","s">>, o>>, <<<<"r","e","s","o","u","r","c","e","s">>, r>> >>)

BaseTitle == JStr(<<" ","A"," ">>)
BaseDescription == JStr(<<"B"," ">>)

\* node-like objects: each field varies while the others keep a base value
NodeInputs ==
  { NodeInput(t, BaseDescription, Undef, Undef) : t \in TitleInputs }
  \cup { NodeInput(BaseTitle, d, Undef, Undef) : d \in DescriptionInputs }
  \cup { NodeInput(BaseTitle, BaseDescription, o, Undef) : o \in OptionsInputs }
  \cup { NodeInput(BaseTitle, BaseDescription, Undef, r) : r \in ResourcesInputs }
  \cup { NodeInput(Undef, Undef,
                    JArr([i \in 1..LongOptions |-> JStr(<<"o","p","t">> \o NatToString(i))]),
                    JArr([i \in 1..LongResources |-> JStr(<<"r","e","s">> \o NatToString(i))])) }

Wrap(n) == Obj(<< <<<<"n","o","d","e">>, n>> >>)

ScalarInputs ==
  { JNull, JBool(FALSE), JNum(0), JStr(<<>>),
    JBool(TRUE), JNum(5), JStr(<<"a","b","c">>), JArr(<<>>), JArr(<<JNum(1)>>) }

\* the fallback object of the stricter prompt
TbdNode == Wrap(Obj(<< <<<<"t","i","t","l","e">>, JStr(<<"T","B","D">>)>>,
                       <<<<"d","e","s","c","r","i","p","t","i","o","n">>, JStr(<<"T","B","D">>)>>,
                       <<<<"o","p","t","i","o","n","s">>, JArr(<<>>)>>,
                       <<<<"r","e","s","o","u","r","c","e","s">>, JArr(<<>>)>> >>))

SimpleNode == NodeInput(BaseTitle, BaseDescription, Undef, Undef)

\* a node without wrapper and without resources, as the model may fence it
ScenarioNode ==
  NodeInput(JStr(<<"E","x","p","l","o","r","e">>), JStr(<<"S","t","a","r","t"," ","h","e","r","e",".">>),
            Strs(<<<<"L","e","a","r","n"," ","t","h","e","o","r","y">>, <<"J","o","i","n"," ","a"," ","b","a","n","d">>>>), Undef)

\* the same with an empty description
BlankNode ==
  NodeInput(JStr(<<"E","x","p","l","o","r","e">>), JStr(<<>>),
            Strs(<<<<"L","e","a","r","n"," ","t","h","e","o","r","y">>, <<"J","o","i","n"," ","a"," ","b","a","n","d">>>>), Undef)

LongNode ==
  NodeInput(Undef, Undef,
            JArr([i \in 1..LongOptions |-> JStr(<<"o","p","t">> \o NatToString(i))]),
            JArr([i \in 1..LongResources |-> JStr(<<"r","e","s">> \o NatToString(i))]))

WrappedInputs ==
  { Wrap(SimpleNode), Wrap(LongNode), TbdNode,
    Wrap(JStr(<<"x">>)), Wrap(JNull), Wrap(JNum(5)), Wrap(Obj(<<>>)),
    Obj(<< <<<<"n","o","d","e">>, JNull>>, <<<<"t","i","t","l","e">>, JStr(<<"T">>)>>,
           <<<<"d","e","s","c","r","i","p","t","i","o","n">>, JStr(<<"D">>)>> >>) }

\* the JSON values the model may send as the whole text
JsonInputs ==
  ScalarInputs \cup NodeInputs \cup WrappedInputs
  \cup { Obj(<< <<<<"a","n","s","w","e","r">>, JNum(1)>> >>),
         JArr(<<SimpleNode>>),
         JArr(<<Obj(<<>>), Obj(<<>>)>>) }

\* the values that are also sent padded, fenced and inside prose
ProbeInputs ==
  { JNum(0), JNum(5), SimpleNode, JArr(<<SimpleNode>>), Obj(<<>>),
    ScenarioNode, BlankNode }

TextsOf(v) ==
  { <<CWs, CJson(v), CWs>>,
    <<CFenceJson, CWs, CJson(v), CWs, CFence>>,
    <<CFence, CJson(v), CFence>>,
    <<CProse, CJson(v), CProse>> }

OddTexts ==
  { <<>>, <<CProse>>,
    <<CProseL, CProse, CProseR>>,
    <<CProseR, CProseL>>,
    <<CProseL, CJson(SimpleNode)>>,
    <<CJson(SimpleNode), CProseR>>,
    <<CJson(SimpleNode), CJson(TbdNode)>>,
    <<CFenceJson, CJson(SimpleNode)>>,
    <<CFenceJson, CFence, CJson(SimpleNode)>>,
    <<CFenceJson, CProse, CFence, CJson(SimpleNode)>>,
    <<CFenceJson, CJson(JNum(0)), CFence, CProse, CJson(SimpleNode)>>,
    <<CFenceJson, CJson(JNum(5)), CFence, CProse, CJson(SimpleNode)>>,
    <<CFence, CJson(TbdNode), CFence, CJson(SimpleNode)>>,
    <<CFence, CProse, CFenceJson, CJson(TbdNode), CFence, CProseR>>,
    <<CFence, CFence, CFenceJson, CJson(TbdNode)>> }

RawTexts ==
  { <<CJson(v)>> : v \in JsonInputs }
  \cup UNION { TextsOf(v) : v \in ProbeInputs }
  \cup OddTexts

-----------------------------------------------------------------------------
(* The state of the other programs of the repository.  Each endpoint and   *)
(* the client page has its own specification below; the actions of one     *)
(* program leave the variables of the others unchanged.                    *)

VARIABLES
  resPc,        \* "idle", "await", "done": where POST /api/resources stands
  googleKey,    \* process.env.GOOGLE_API_KEY is set
  resBody,      \* text of the request body of POST /api/resources
  resCalls,     \* fetch() calls issued for this request
  resUpstream,  \* what the upstream call delivered, once it has returned
  resResponse   \* the response sent by POST /api/resources

resourcesVars == <<resPc, googleKey, resBody, resCalls, resUpstream, resResponse>>

\* a response of POST /api/resources: status and JSON body
ResResponse(status, body) == [status |-> status, body |-> body]
ResNone == ResResponse(0, Undef)

\* nothing fetched yet
NoUpstream == [kind |-> "none", status |-> 0, env |-> "none", text |-> <<>>]

ResourcesIdle ==
  /\ resPc = "idle"
  /\ resBody = <<>>
  /\ resCalls = 0
  /\ resUpstream = NoUpstream
  /\ resResponse = ResNone

VARIABLES
  step,             \* "profile" or "exploration"
  userProfile,      \* the state userProfile, "" for null
  currentNode,      \* the state currentNode; NoNode stands for null
  pathHistory,      \* the state pathHistory
  activePaths,      \* the state activePaths
  isGenerating,     \* the state isGenerating
  selectedOption,   \* the state selectedOption of MCQInterface, "" for null
  customInput,      \* the state customInput of MCQInterface
  generations,      \* the pending calls of generateInitialSuggestions and
                    \* generateNodeSuggestions, in the order of their start
  created,          \* how many nodes have been given an id
  resources,        \* the state resources
  resourcesLoading, \* the state resourcesLoading
  resourcesError,   \* the state resourcesError, "" for null
  effectNode,       \* id of the node the effect last ran for, 0 for none
  inflight,         \* the pending fetchResources calls
  aborted           \* ids of the nodes whose request was aborted

pageVars == <<step, userProfile, currentNode, pathHistory, activePaths, isGenerating,
              selectedOption, customInput, generations, created>>
panelVars == <<resources, resourcesLoading, resourcesError, effectNode,
               inflight, aborted>>
clientVars == <<pageVars, panelVars>>

PathNode(id, level, parentId) == [id |-> id, level |-> level, parentId |-> parentId]
NoNode == PathNode(0, 0, 0)

ClientIdle ==
  /\ step = "profile"
  /\ userProfile = ""
  /\ currentNode = NoNode
  /\ pathHistory = <<>>
  /\ activePaths = <<>>
  /\ isGenerating = FALSE
  /\ selectedOption = ""
  /\ customInput = <<>>
  /\ generations = <<>>
  /\ created = 0
  /\ resources = <<>>
  /\ resourcesLoading = FALSE
  /\ resourcesError = ""
  /\ effectNode = 0
  /\ inflight = {}
  /\ aborted = {}

VARIABLES
  rateLimitStore,  \* the Map rateLimitStore: key -> {count, resetTime}
  now,             \* what Date.now() returns
  admitted,        \* per key, the times of the requests let through
  lastRequest      \* key and fate of the request handled last

limiterVars == <<rateLimitStore, now, admitted, lastRequest>>

\* the values of x-forwarded-for seen; no header reads as 'anonymous'
RateKeys == {"10.0.0.1", "anonymous"}

\* rateLimitStore.get(key) is undefined
NoRecord == [count |-> 0, resetTime |-> 0]

NoRequest == [key |-> "", status |-> 0, processed |-> FALSE]

LimiterIdle ==
  /\ rateLimitStore = [k \in RateKeys |-> NoRecord]
  /\ now = 0
  /\ admitted = [k \in RateKeys |-> <<>>]
  /\ lastRequest = NoRequest

VARIABLES
  exPc,        \* "idle", "reading", "calling", "done": POST /api/career/extract
  geminiKey,   \* process.env.GEMINI_API_KEY is set
  exFile,      \* the resume entry of the form data
  exCalls,     \* generateContent calls issued for this request
  exLog,       \* the guards passed and the calls made, in order
  exResponse   \* the response sent: status and error, 0 for none

extractVars == <<exPc, geminiKey, exFile, exCalls, exLog, exResponse>>

NoFile == [kind |-> "absent", size |-> 0]

ExResponse(status, error) == [status |-> status, error |-> error]

ExtractIdle ==
  /\ exPc = "idle"
  /\ exFile = NoFile
  /\ exCalls = 0
  /\ exLog = <<>>
  /\ exResponse = ExResponse(0, "")

VARIABLES
  anPc,        \* "idle", "calling", "waiting", "done": the retry loop of POST /api/res
  hasLinkedIn, \* the local hasLinkedIn
  attempts,    \* the local attempts: the calls that failed
  anCalls,     \* the outcome of every chat.completions.create call, in order
  analysis,    \* the local analysis
  anResponse   \* the status of the response sent, 0 for none

analysisVars == <<anPc, hasLinkedIn, attempts, anCalls, analysis, anResponse>>

AnalysisIdle ==
  /\ anPc = "idle"
  /\ hasLinkedIn = FALSE
  /\ attempts = 0
  /\ anCalls = <<>>
  /\ analysis = "{}"
  /\ anResponse = 0

VARIABLES
  savedResources,       \* state.savedResources, a set of ids
  resourceCollections,  \* state.resourceCollections, node id to list
  resourceHistory,      \* state.resourceHistory
  renderedSaved,        \* state.savedResources as the last rendering saw it
  batchesDistinct       \* no list saved for a node held an id twice

savedVars == <<savedResources, resourceCollections, resourceHistory,
               renderedSaved, batchesDistinct>>

NodeIds == {"n1"}

SavedIdle ==
  /\ savedResources = {}
  /\ resourceCollections = [n \in NodeIds |-> <<>>]
  /\ resourceHistory = <<>>
  /\ renderedSaved = {}
  /\ batchesDistinct = TRUE

VARIABLES
  progress,     \* the state progress of useGameProgress
  everBadges    \* the ids of all badges progress.badges has held

gameVars == <<progress, everBadges>>

GameIdle ==
  /\ progress = [level |-> 1, xp |-> 0, badges |-> <<>>, exploredPaths |-> 0,
                 completedQuizzes |-> 0]
  /\ everBadges = {}

restVars == <<extractVars, analysisVars, savedVars, gameVars>>

RestIdle ==
  /\ ExtractIdle /\ geminiKey = TRUE
  /\ AnalysisIdle
  /\ SavedIdle
  /\ GameIdle

others == <<resourcesVars, clientVars, limiterVars, restVars>>

OthersIdle ==
  /\ ResourcesIdle /\ googleKey = TRUE
  /\ ClientIdle
  /\ LimiterIdle
  /\ RestIdle
-----------------------------------------------------------------------------
(* The provider call *)

\* what fetch and the provider can do to one call
FetchOutcome(kind, status, raw) == [kind |-> kind, status |-> status, raw |-> raw]

FetchFailures ==
  { FetchOutcome("network", 0, <<>>),     \* fetch rejects
    FetchOutcome("http", 429, <<>>),      \* !res.ok
    FetchOutcome("http", 503, <<>>),
    FetchOutcome("badbody", 200, <<>>) }  \* res.json() rejects

FetchOutcomes ==
  FetchFailures \cup { FetchOutcome("text", 200, t) : t \in RawTexts }

E_noKey     == "GEMINI_API_KEY missing"
E_network   == "fetch failed"
E_http      == "Gemini API error"
E_badBody   == "Unexpected token in provider response"
E_bodyJson  == "Unexpected token in request body"
E_zodIn     == "ZodError: request"
E_zodOut    == "ZodError: output"
E_noJson    == "Model did not return valid JSON."
E_url       == "Invalid URL"

\* callGeminiREST once the key check has passed: the outcome of the fetch
\* becomes the returned raw text or a thrown error
callGeminiREST(outcome) ==
  CASE outcome.kind = "network" -> [threw |-> TRUE, error |-> E_network, raw |-> <<>>]
    [] outcome.kind = "http"    -> [threw |-> TRUE, error |-> E_http, raw |-> <<>>]
    [] outcome.kind = "badbody" -> [threw |-> TRUE, error |-> E_badBody, raw |-> <<>>]
    [] OTHER                    -> [threw |-> FALSE, error |-> "", raw |-> outcome.raw]

-----------------------------------------------------------------------------
(* The route handler POST *)

VARIABLES
  pc,          \* "idle", "await1", "await2", "done": where POST stands
  apiKey,      \* process.env.GEMINI_API_KEY is set
  reqBody,     \* text of the request body being handled
  callLog,     \* the callGeminiREST invocations of this request, in order
  fetches,     \* fetch() calls issued for this request
  json,        \* the variable json of POST
  normalized,  \* outcome of normalizeNodeJson, once it has run
  response     \* the response sent

vars == <<pc, apiKey, reqBody, callLog, fetches, json,
          normalized, response>>

\* the variables of all the programs
allVars == <<vars, others>>

NoResponse == [status |-> 0, error |-> "", body |-> JNull]
ErrorResponse(msg) == [status |-> 500, error |-> msg, body |-> JNull]
OkResponse(out) == [status |-> 200, error |-> "", body |-> out]

NotNormalized == [ran |-> FALSE, threw |-> FALSE, value |-> JNull]

\* one callGeminiREST invocation: strict tells whether the prompt carried the
\* appended "Return ONLY valid JSON" instruction; result is "pending",
\* "text" or "threw"
Call(strict, result, raw) == [strict |-> strict, result |-> result, raw |-> raw]

\* await req.json() resolves
bodyIsJson(body) == parsesAsJson(body)

\* variant: the test is inverted
noJson_inverted(j) == Truthy(j)

\* if (!json): the attempt produced nothing usable
noJson(j) == ~Truthy(j)

\* no request is being handled
GenerateIdle ==
  /\ pc = "idle"
  /\ reqBody = <<>>
  /\ callLog = <<>>
  /\ fetches = 0
  /\ json = JNull
  /\ normalized = NotNormalized
  /\ response = NoResponse

Init ==
  /\ GenerateIdle
  /\ apiKey \in BOOLEAN
  /\ OthersIdle

\* variant: the exception of the output check leaves POST uncaught
Validate_uncaught(n) ==
  /\ normalized' = [ran |-> TRUE, threw |-> n.threw, value |-> n.value]
  /\ response' = IF n.threw THEN ErrorResponse(E_url)
                 ELSE IF ~OutputSchema(n.value) THEN NoResponse
                 ELSE OkResponse(n.value)

\* OutputSchema.parse(normalized) and the response; n is the outcome of
\* normalizeNodeJson
Validate(n) ==
  /\ normalized' = [ran |-> TRUE, threw |-> n.threw, value |-> n.value]
  /\ response' = IF n.threw THEN ErrorResponse(E_url)
                 ELSE IF ~OutputSchema(n.value) THEN ErrorResponse(E_zodOut)
                 ELSE OkResponse(n.value)

\* variant: the missing json is not thrown on but normalised like any value
Finish_noThrow(j, log) ==
  /\ pc' = "done"
  /\ callLog' = log
  /\ json' = j
  /\ Validate(normalizeNodeJson(j))

\* if (!json) throw ...; normalise, validate, respond
Finish(j, log) ==
  /\ pc' = "done"
  /\ callLog' = log
  /\ json' = j
  /\ IF noJson(j)
     THEN /\ response' = ErrorResponse(E_noJson)
          /\ UNCHANGED normalized
     ELSE Validate(normalizeNodeJson(j))

\* variant: the failures of the input check are answered with status 400
Fail_clientError(msg, log) ==
  /\ pc' = "done"
  /\ callLog' = log
  /\ response' = [status |-> IF msg \in {E_bodyJson, E_zodIn} THEN 400 ELSE 500,
                  error |-> msg, body |-> JNull]
  /\ UNCHANGED <<json, normalized>>

\* the catch block: any exception becomes a 500 response
Fail(msg, log) ==
  /\ pc' = "done"
  /\ callLog' = log
  /\ response' = ErrorResponse(msg)
  /\ UNCHANGED <<json, normalized>>

\* POST up to its first pending fetch: read and validate the body, build
\* the prompt, invoke callGeminiREST for attempt 1
Receive(body) ==
  /\ pc = "idle"
  /\ reqBody' = body
  /\ UNCHANGED <<apiKey, others>>
  /\ IF ~bodyIsJson(body)
     THEN Fail(E_bodyJson, <<>>) /\ UNCHANGED fetches
     ELSE IF ~RequestSchema(tryParseJson(body))
     THEN Fail(E_zodIn, <<>>) /\ UNCHANGED fetches
     ELSE IF ~apiKey
     THEN Fail(E_noKey, <<Call(FALSE, "threw", <<>>)>>) /\ UNCHANGED fetches
     ELSE /\ pc' = "await1"
          /\ callLog' = <<Call(FALSE, "pending", <<>>)>>
          /\ fetches' = 1
          /\ UNCHANGED <<json, normalized, response>>

\* the fetch of attempt 1 completes: extract, then retry or finish
Attempt1Returns(outcome) ==
  /\ pc = "await1"
  /\ UNCHANGED <<apiKey, reqBody, others>>
  /\ LET r == callGeminiREST(outcome)
         j == lenientParse(r.raw)
     IN  IF r.threw
         THEN Fail(r.error, <<Call(FALSE, "threw", <<>>)>>) /\ UNCHANGED fetches
         ELSE IF noJson(j)
         THEN /\ pc' = "await2"
              /\ json' = j
              /\ callLog' = <<Call(FALSE, "text", r.raw), Call(TRUE, "pending", <<>>)>>
              /\ fetches' = fetches + 1
              /\ UNCHANGED <<normalized, response>>
         ELSE Finish(j, <<Call(FALSE, "text", r.raw)>>) /\ UNCHANGED fetches

\* the fetch of attempt 2 completes: extract and finish
Attempt2Returns(outcome) ==
  /\ pc = "await2"
  /\ UNCHANGED <<apiKey, reqBody, fetches, others>>
  /\ LET r == callGeminiREST(outcome)
     IN  IF r.threw
         THEN Fail(r.error, <<callLog[1], Call(TRUE, "threw", <<>>)>>)
         ELSE Finish(lenientParse(r.raw), <<callLog[1], Call(TRUE, "text", r.raw)>>)

\* the server takes the next request; requests share nothing but the
\* environment
NextRequest ==
  /\ pc = "done"
  /\ pc' = "idle"
  /\ reqBody' = <<>>
  /\ callLog' = <<>>
  /\ fetches' = 0
  /\ json' = JNull
  /\ normalized' = NotNormalized
  /\ response' = NoResponse
  /\ UNCHANGED <<apiKey, others>>

Next ==
  \/ \E body \in Bodies : Receive(body)
  \/ \E outcome \in FetchOutcomes : Attempt1Returns(outcome)
  \/ \E outcome \in FetchOutcomes : Attempt2Returns(outcome)
  \/ NextRequest

Spec == Init /\ [][Next]_allVars


-----------------------------------------------------------------------------
(* Properties of the node-generation endpoint *)

\* the three extraction strategies, seen one by one
WholeParses(raw) == parsesAsJson(raw)
FenceParses(raw) == FenceOf(raw).matched /\ parsesAsJson(FenceOf(raw).group)
BraceParses(raw) == braceParse(raw) # JNull

\* no strategy finds any JSON in the text
NoJsonIn(raw) == ~WholeParses(raw) /\ ~FenceParses(raw) /\ ~BraceParses(raw)

\* some strategy parses a JSON object out of the text
YieldsObject(raw) ==
  \/ IsObj(tryParseJson(raw))
  \/ (FenceParses(raw) /\ IsObj(tryParseJson(FenceOf(raw).group)))
  \/ IsObj(braceParse(raw))

ValidBodies == { <<CJson(v)>> : v \in ValidBodyValues }
Received == pc # "idle"
Malformed == Received /\ reqBody \notin ValidBodies

calls == Len(callLog)
Returned(i) == calls >= i /\ callLog[i].result = "text"
Threw(i) == calls >= i /\ callLog[i].result = "threw"

InputErrors == {E_bodyJson, E_zodIn}

\* C1: when both model calls return text in which no strategy finds JSON,
\* the request has ended with the error 'Model did not return valid JSON.'
\* after exactly two calls, and nothing further is pending.
C1_RetryExhaustion ==
  (Returned(1) /\ Returned(2)
     /\ NoJsonIn(callLog[1].raw) /\ NoJsonIn(callLog[2].raw))
  => /\ pc = "done"
     /\ response = ErrorResponse(E_noJson)
     /\ calls = 2 /\ fetches = 2

C1_Witness ==
  /\ pc = "done" /\ Returned(1) /\ Returned(2)
  /\ NoJsonIn(callLog[1].raw) /\ NoJsonIn(callLog[2].raw)
  /\ callLog[1].raw # <<>> /\ callLog[2].raw # callLog[1].raw

\* C2: a first model call that throws does not end the request; the retry
\* call is still issued, so a finished request whose first call threw has
\* made two calls.
C2_RetryAfterThrow ==
  (pc = "done" /\ Threw(1)) => (calls = 2 /\ callLog[2].strict)

\* C3: whatever normalizeNodeJson returns satisfies the output schema.
C3_CoercedPassesSchema ==
  (normalized.ran /\ ~normalized.threw) => OutputSchema(normalized.value)

\* C4: normalizeNodeJson and normalizeResource never raise an exception.
C4_CoercionNeverThrows == normalized.ran => ~normalized.threw

\* C5: an extracted value without a node property and without string title
\* and description never leads to a 200 response.
C5_UnusableValueFails ==
  (pc = "done" /\ ~noJson(json) /\ ~HasKey(json, <<"n","o","d","e">>)
     /\ ~(IsStr(Get(json, <<"t","i","t","l","e">>)) /\ IsStr(Get(json, <<"d","e","s","c","r","i","p","t","i","o","n">>))))
  => response.status # 200

\* C6: a first attempt whose text yields no JSON object by any strategy is
\* followed by exactly one more call, made with the stricter instruction.
C6_RetryUnlessObject ==
  (pc = "done" /\ Returned(1) /\ ~YieldsObject(callLog[1].raw))
  => (calls = 2 /\ callLog[2].strict /\ ~callLog[1].strict)

\* C7: at most two model calls per request, never two at once; the second
\* starts only after the first returned text that failed extraction, and a
\* first attempt that yields a JSON object is the only call.
C7_SequentialCalls ==
  /\ calls <= 2 /\ fetches <= 2
  /\ Cardinality({i \in 1..calls : callLog[i].result = "pending"}) <= 1
  /\ (pc \in {"idle", "done"} => \A i \in 1..calls : callLog[i].result # "pending")
  /\ calls = 2 => /\ Returned(1)
                  /\ ~Truthy(lenientParse(callLog[1].raw))
                  /\ ~YieldsObject(callLog[1].raw)
  /\ (pc = "done" /\ Returned(1) /\ YieldsObject(callLog[1].raw)) => calls = 1

C7_Witness ==
  /\ pc = "await2" /\ calls = 2 /\ callLog[2].result = "pending"
  /\ Returned(1) /\ callLog[1].raw # <<>>

ResponseNode == Get(response.body, <<"n","o","d","e">>)

\* C8: a 200 response carries at most 6 options and at most 8 resources.
C8_ClampedLists ==
  response.status = 200 =>
    /\ Len(Get(ResponseNode, <<"o","p","t","i","o","n","s">>).a) <= 6
    /\ Len(Get(ResponseNode, <<"r","e","s","o","u","r","c","e","s">>).a) <= 8

\* the model sent longer lists than the response keeps
C8_Witness ==
  /\ response.status = 200
  /\ Len(Get(ResponseNode, <<"o","p","t","i","o","n","s">>).a) = 6
  /\ Len(Get(ResponseNode, <<"r","e","s","o","u","r","c","e","s">>).a) = 8
  /\ Len(Get(Coalesce(Get(json, <<"n","o","d","e">>), json), <<"o","p","t","i","o","n","s">>).a) > 6
  /\ Len(Get(Coalesce(Get(json, <<"n","o","d","e">>), json), <<"r","e","s","o","u","r","c","e","s">>).a) > 8

\* C9: a request body that fails the input schema is answered without any
\* model call.
C9_NoCallForMalformedBody ==
  Malformed => (pc = "done" /\ callLog = <<>> /\ fetches = 0)

C9_Witness ==
  /\ Malformed /\ bodyIsJson(reqBody) /\ IsObj(tryParseJson(reqBody))
  /\ pc = "done" /\ response.status = 500

C11_OneStructuredResponse ==
  /\ (pc = "done") <=> (response # NoResponse)
  /\ pc = "done" =>
       \/ /\ response.status = 200
          /\ response.error = ""
          /\ IsObj(response.body) /\ HasKey(response.body, <<"n","o","d","e">>)
       \/ /\ response.status = 500
          /\ response.error # ""
          /\ response.body = JNull

\* a failure of each kind ended in the 500 form
C11_Witness ==
  /\ pc = "done" /\ response.status = 500
  /\ response.error = E_zodOut /\ normalized.ran

\* normalizeNodeJson run once more on its own result; the ids of the first
\* run are taken
SecondRun(v) == normalizeNodeJsonFrom(v, LongResources + 1)

ResourceFields ==
  { <<"i","d">>, <<"t","i","t","l","e">>, <<"d","e","s","c","r","i","p","t","i","o","n">>, <<"t","y","p","e">>, <<"u","r","l">>,
    <<"d","i","f","f","i","c","u","l","t","y">>, <<"d","u","r","a","t","i","o","n">> }

\* two {node: ...} values with the same title, description, options in
\* order and resources in order, field by field (a property that is absent
\* reads as undefined)
SameNode(x, y) ==
  /\ Get(Get(x, <<"n","o","d","e">>), <<"t","i","t","l","e">>) = Get(Get(y, <<"n","o","d","e">>), <<"t","i","t","l","e">>)
  /\ Get(Get(x, <<"n","o","d","e">>), <<"d","e","s","c","r","i","p","t","i","o","n">>) = Get(Get(y, <<"n","o","d","e">>), <<"d","e","s","c","r","i","p","t","i","o","n">>)
  /\ Get(Get(x, <<"n","o","d","e">>), <<"o","p","t","i","o","n","s">>) = Get(Get(y, <<"n","o","d","e">>), <<"o","p","t","i","o","n","s">>)
  /\ Len(Get(Get(x, <<"n","o","d","e">>), <<"r","e","s","o","u","r","c","e","s">>).a)
       = Len(Get(Get(y, <<"n","o","d","e">>), <<"r","e","s","o","u","r","c","e","s">>).a)
  /\ \A i \in 1..Len(Get(Get(x, <<"n","o","d","e">>), <<"r","e","s","o","u","r","c","e","s">>).a) :
       \A f \in ResourceFields :
         Get(Get(Get(x, <<"n","o","d","e">>), <<"r","e","s","o","u","r","c","e","s">>).a[i], f)
           = Get(Get(Get(y, <<"n","o","d","e">>), <<"r","e","s","o","u","r","c","e","s">>).a[i], f)

\* C12: normalizeNodeJson applied to its own result returns that result.
C12_NormalizeIdempotent ==
  (normalized.ran /\ ~normalized.threw) =>
    /\ ~SecondRun(normalized.value).threw
    /\ SameNode(SecondRun(normalized.value).value, normalized.value)

\* the first run changed its input: ids were drawn, lists were coerced
C12_Witness ==
  /\ normalized.ran /\ ~normalized.threw
  /\ normalized.value # json
  /\ Len(Get(ResponseNode, <<"o","p","t","i","o","n","s">>).a) >= 2
  /\ Len(Get(Get(normalized.value, <<"n","o","d","e">>), <<"r","e","s","o","u","r","c","e","s">>).a) >= 2

OutputResources == Get(Get(normalized.value, <<"n","o","d","e">>), <<"r","e","s","o","u","r","c","e","s">>).a

\* C13: every resource normalizeResource returns has a type among course,
\* video, website, tool, whatever the type field of its input holds.
C13_TypeTotal ==
  (normalized.ran /\ ~normalized.threw) =>
    \A i \in 1..Len(OutputResources) :
      /\ IsStr(Get(OutputResources[i], <<"t","y","p","e">>))
      /\ Get(OutputResources[i], <<"t","y","p","e">>).s \in ResourceTypes

\* the input resource carries a URL and a type word outside the four
C13_Witness ==
  /\ normalized.ran /\ ~normalized.threw
  /\ Len(OutputResources) = 1
  /\ IsStr(Get(OutputResources[1], <<"u","r","l">>))
  /\ Get(Get(json, <<"r","e","s","o","u","r","c","e","s">>).a[1], <<"t","y","p","e">>) = JStr(<<"b","o","o","k">>)
  /\ Get(OutputResources[1], <<"t","y","p","e">>) = JStr(T_video)

\* the value of the first strategy, in the order whole text, fenced block,
\* brace slice, whose JSON.parse succeeds
FirstParsed(raw) ==
  IF WholeParses(raw) THEN tryParseJson(raw)
  ELSE IF FenceParses(raw) THEN tryParseJson(FenceOf(raw).group)
  ELSE braceParse(raw)

\* C14: the value an attempt goes on with is the result of the first
\* strategy, in the order whole text, fenced block, brace slice, that parses.
C14_FirstParseWins ==
  (pc = "done" /\ calls = 1 /\ Returned(1)) =>
    (~NoJsonIn(callLog[1].raw) /\ json = FirstParsed(callLog[1].raw))

\* a string without white space at its ends
Unpadded(v) == IsStr(v) /\ trim(v.s) = v.s

\* the text is one fenced block around a JSON object with string title and
\* description (here: without white space at their ends), without node and
\* without resources
FencedPlainNode(raw) ==
  /\ Len(raw) >= 3
  /\ IsFenceChunk(raw[1]) /\ raw[Len(raw)] = CFence
  /\ parsesAsJson(SubSeq(raw, 2, Len(raw) - 1))
  /\ IsObj(tryParseJson(SubSeq(raw, 2, Len(raw) - 1)))
  /\ Unpadded(Get(tryParseJson(SubSeq(raw, 2, Len(raw) - 1)), <<"t","i","t","l","e">>))
  /\ Unpadded(Get(tryParseJson(SubSeq(raw, 2, Len(raw) - 1)), <<"d","e","s","c","r","i","p","t","i","o","n">>))
  /\ ~HasKey(tryParseJson(SubSeq(raw, 2, Len(raw) - 1)), <<"n","o","d","e">>)
  /\ ~HasKey(tryParseJson(SubSeq(raw, 2, Len(raw) - 1)), <<"r","e","s","o","u","r","c","e","s">>)

\* the node the claim expects for the fenced object v
EchoedNode(v) ==
  JObj(<< <<<<"n","o","d","e">>,
            JObj(<< <<<<"t","i","t","l","e">>, Get(v, <<"t","i","t","l","e">>)>>,
                    <<<<"d","e","s","c","r","i","p","t","i","o","n">>, Get(v, <<"d","e","s","c","r","i","p","t","i","o","n">>)>>,
                    <<<<"o","p","t","i","o","n","s">>, IF IsArr(Get(v, <<"o","p","t","i","o","n","s">>))
                                   THEN Get(v, <<"o","p","t","i","o","n","s">>) ELSE JArr(<<>>)>>,
                    <<<<"r","e","s","o","u","r","c","e","s">>, JArr(<<>>)>> >>)>> >>)

\* C15: a first attempt that returns a fenced object with string title and
\* description, no node wrapper and no resources is answered 200 with that
\* title, description and options and with resources [], after one call.
C15_FencedNodeEchoed ==
  (pc = "done" /\ Returned(1) /\ FencedPlainNode(callLog[1].raw)) =>
    /\ calls = 1
    /\ response.status = 200
    /\ response.body =
         EchoedNode(tryParseJson(SubSeq(callLog[1].raw, 2, Len(callLog[1].raw) - 1)))

-----------------------------------------------------------------------------
(* The resource-discovery endpoint, POST /api/resources *)

\* String(x); the values converted here are never arrays
String(v) ==
  CASE v.k = "str"   -> v.s
    [] v.k = "num"   -> NatToString(v.n)
    [] v.k = "bool"  -> IF v.b THEN <<"t","r","u","e">> ELSE <<"f","a","l","s","e">>
    [] v.k = "null"  -> <<"n","u","l","l">>
    [] v.k = "undef" -> <<"u","n","d","e","f","i","n","e","d">>
    [] OTHER         -> <<"[","o","b","j","e","c","t"," ","O","b","j","e","c","t","]">>

\* a || b
Or(x, y) == IF Truthy(x) THEN x ELSE y

coerceArray(x) == IF IsArr(x) THEN x.a ELSE <<>>

MaxQ == 800

normalizeQ(raw) == sliceTo(IF IsStr(raw) THEN trim(raw.s) ELSE <<>>, MaxQ)

\* await req.json().catch(() => ({ q: "" }))
bodyOrBlank(body) ==
  IF parsesAsJson(body) THEN tryParseJson(body)
  ELSE Obj(<< <<<<"q">>, JStr(<<>>)>> >>)

\* const { q: rawQ } = value throws on null
destructureThrows(v) == IsNullish(v)

RE_missingKey  == <<"M","i","s","s","i","n","g"," ","G","O","O","G","L","E","_","A","P","I","_","K","E","Y">>
RE_missingQ    == <<"M","i","s","s","i","n","g"," ","'","q","'"," ","i","n"," ","J","S","O","N"," ","b","o","d","y">>
RE_destructure == <<"C","a","n","n","o","t"," ","d","e","s","t","r","u","c","t","u","r","e"," ","p","r","o","p","e","r","t","y"," ","'","q","'"," ","o","f"," ","n","u","l","l">>
RE_fetch       == <<"f","e","t","c","h"," ","f","a","i","l","e","d">>
RE_body        == <<"t","e","r","m","i","n","a","t","e","d">>
RE_parse       == <<"U","n","e","x","p","e","c","t","e","d"," ","t","o","k","e","n"," ","i","n"," ","J","S","O","N">>
RE_read        == <<"C","a","n","n","o","t"," ","r","e","a","d"," ","p","r","o","p","e","r","t","i","e","s"," ","o","f"," ","n","u","l","l">>
RE_slice       == <<"s","l","i","c","e"," ","i","s"," ","n","o","t"," ","a"," ","f","u","n","c","t","i","o","n">>
RE_gemini(status) == <<"G","e","m","i","n","i"," ","A","P","I"," ","e","r","r","o","r",":"," ">> \o NatToString(status)

\* { resources: [], error }
ErrorBody(msg) ==
  Obj(<< <<<<"r","e","s","o","u","r","c","e","s">>, JArr(<<>>)>>, <<<<"e","r","r","o","r">>, JStr(msg)>> >>)

\* { resources: [], error, upstream }
UpstreamErrorBody(status, echo) ==
  Obj(<< <<<<"r","e","s","o","u","r","c","e","s">>, JArr(<<>>)>>,
         <<<<"e","r","r","o","r">>, JStr(RE_gemini(status))>>,
         <<<<"u","p","s","t","r","e","a","m">>, echo>> >>)

\* { resources: shaped }
OkBody(list) == Obj(<< <<<<"r","e","s","o","u","r","c","e","s">>, JArr(list)>> >>)

\* what fetch and the provider can do to the one call.  kind: "network"
\* (fetch rejects), "badbody" (resp.text() rejects) or "resp"; env tells
\* what the body of a response holds: "blank" (nothing), "notjson",
\* "nocandidates" (JSON without candidates), "text" (parts[0].text is the
\* model text) or "inline" (parts[0].inlineData.data is)
Upstream(kind, status, env, text) ==
  [kind |-> kind, status |-> status, env |-> env, text |-> text]

\* resp.ok
respOk(status) == status >= 200 /\ status <= 299

\* json || raw
upstreamEcho(u) ==
  CASE u.env = "blank"        -> JStr(<<>>)
    [] u.env = "notjson"      -> JStr(<<"B","a","d"," ","G","a","t","e","w","a","y">>)
    [] u.env = "nocandidates" -> Obj(<< <<<<"e","r","r","o","r">>, JStr(<<"q","u","o","t","a">>)>> >>)
    [] OTHER                  -> Obj(<< <<<<"c","a","n","d","i","d","a","t","e","s">>, JArr(<<>>)>> >>)

\* json?.candidates?.[0]?.content?.parts?.[0]?.text ?? ...inlineData?.data ?? ""
textOf(u) == IF u.env \in {"text", "inline"} THEN u.text ELSE <<>>

\* start >= 0 && end >= start for the first '{' and the last '}'
hasSlice(t) ==
  \E i \in 1..Len(t) : \E j \in i..Len(t) :
     HasOpenBrace(t[i]) /\ HasCloseBrace(t[j])

\* JSON.parse(text), in its catch JSON.parse of the brace slice or the
\* empty list when there is no slice
parseText(t) ==
  IF parsesAsJson(t) THEN [threw |-> FALSE, value |-> tryParseJson(t)]
  ELSE IF ~hasSlice(t)
  THEN [threw |-> FALSE, value |-> OkBody(<<>>)]
  ELSE IF braceParse(t) = JNull THEN [threw |-> TRUE, value |-> JNull]
  ELSE [threw |-> FALSE, value |-> braceParse(t)]

MaxItems == 12
IdChars  == 20

\* coerceArray(parsed.resources).slice(0, 12)
itemsOf(parsed) == sliceTo(coerceArray(Get(parsed, <<"r","e","s","o","u","r","c","e","s">>)), MaxItems)

\* r.url || r.title || "x"
idSeed(r) == Or(Or(Get(r, <<"u","r","l">>), Get(r, <<"t","i","t","l","e">>)), JStr(<<"x">>))

\* the property reads throw on null, .slice on a value that is no string
shapeThrows(r) == IsNullish(r) \/ ~IsStr(idSeed(r))

shapedId(r, i) ==
  JStr(<<"g","e","m","-">> \o NatToString(i) \o <<"-">> \o sliceTo(idSeed(r).s, IdChars))

\* String(r.title || "").trim() || (r.url || "Untitled")
titleOr(t, r) ==
  IF t # <<>> THEN JStr(t) ELSE Or(Get(r, <<"u","r","l">>), JStr(<<"U","n","t","i","t","l","e","d">>))

shapedTitle(r) == titleOr(trim(String(Or(Get(r, <<"t","i","t","l","e">>), JStr(<<>>)))), r)

shapedUrl(r) == JStr(trim(String(Or(Get(r, <<"u","r","l">>), JStr(<<>>)))))

shapedDescription(r) ==
  IF Truthy(Get(r, <<"d","e","s","c","r","i","p","t","i","o","n">>))
  THEN JStr(trim(String(Get(r, <<"d","e","s","c","r","i","p","t","i","o","n">>)))) ELSE JStr(<<>>)

KnownTypes ==
  { JStr(<<"v","i","d","e","o">>), JStr(<<"c","o","u","r","s","e">>), JStr(<<"t","h","r","e","a","d">>), JStr(<<"p","a","p","e","r">>),
    JStr(<<"t","o","o","l">>) }

shapedType(r) ==
  IF Get(r, <<"t","y","p","e">>) \in KnownTypes THEN Get(r, <<"t","y","p","e">>)
  ELSE JStr(<<"w","e","b","s","i","t","e">>)

\* the object built for item r at index i
shape(r, i) ==
  Obj(<< <<<<"i","d">>, shapedId(r, i)>>,
         <<<<"t","i","t","l","e">>, shapedTitle(r)>>,
         <<<<"u","r","l">>, shapedUrl(r)>>,
         <<<<"d","e","s","c","r","i","p","t","i","o","n">>, shapedDescription(r)>>,
         <<<<"t","y","p","e">>, shapedType(r)>>,
         <<<<"s","o","u","r","c","e">>, JStr(<<"g","e","m","i","n","i">>)>> >>)

RECURSIVE mapShape(_, _)
mapShape(items, i) ==
  IF items = <<>> THEN <<>>
  ELSE <<shape(Head(items), i)>> \o mapShape(Tail(items), i + 1)

hasUrl(x) == Truthy(Get(x, <<"u","r","l">>))

\* variant: the entries without a URL are kept
shaped_keepAll(items) == mapShape(items, 0)

\* items.map(...).filter((x) => x.url)
shaped(items) == SelectSeq(mapShape(items, 0), hasUrl)

\* the answer to the items of the parsed text
answerItems(items) ==
  IF \E i \in 1..Len(items) : shapeThrows(items[i])
  THEN ResResponse(500, ErrorBody(RE_slice))
  ELSE ResResponse(200, OkBody(shaped(items)))

\* the answer to the outcome of parseText
answerParsed(p) ==
  IF p.threw THEN ResResponse(500, ErrorBody(RE_parse))
  ELSE IF IsNullish(p.value) THEN ResResponse(500, ErrorBody(RE_read))
  ELSE answerItems(itemsOf(p.value))

\* POST from the return of fetch to its response
answer(u) ==
  CASE u.kind = "network" -> ResResponse(500, ErrorBody(RE_fetch))
    [] u.kind = "badbody" -> ResResponse(500, ErrorBody(RE_body))
    [] u.kind = "resp" /\ ~respOk(u.status) ->
         ResResponse(u.status, UpstreamErrorBody(u.status, upstreamEcho(u)))
    [] OTHER -> answerParsed(parseText(textOf(u)))

-----------------------------------------------------------------------------
(* Inputs of POST /api/resources *)

\* length of the long item list the model may send
LongItems == 13

QBody(v) == <<CJson(Obj(<< <<<<"q">>, v>> >>))>>

ResBodies ==
  { QBody(JStr(<<" ","j","a","z","z"," ","g","u","i","t","a","r"," ">>)),
    QBody(JStr([i \in 1..(MaxQ + 1) |-> "a"])),
    QBody(JStr(<<>>)), QBody(JStr(<<" "," ">>)), QBody(JNum(5)), QBody(JNull),
    QBody(Undef),
    <<CJson(JNull)>>, <<CJson(JNum(5))>>, <<CJson(JArr(<<>>))>>,
    <<CProse>>, <<>> }

Item(title, url, description, type) ==
  Obj(<< <<<<"t","i","t","l","e">>, title>>, <<<<"u","r","l">>, url>>,
         <<<<"d","e","s","c","r","i","p","t","i","o","n">>, description>>, <<<<"t","y","p","e">>, type>> >>)

ItemTypeInputs ==
  { Undef, JNum(5), JStr(<<"v","i","d","e","o">>), JStr(<<"c","o","u","r","s","e">>), JStr(<<"t","h","r","e","a","d">>),
    JStr(<<"p","a","p","e","r">>), JStr(<<"t","o","o","l">>), JStr(<<"w","e","b","s","i","t","e">>), JStr(<<"V","i","d","e","o">>),
    JStr(<<"b","o","o","k">>) }

GoodUrl == JStr(<<"h","t","t","p","s",":","/","/","a",".","i","o","/","x">>)

ItemInputs ==
  { Item(JStr(<<"T">>), GoodUrl, Undef, t) : t \in ItemTypeInputs }
  \cup
  { Item(JStr(<<" ","T"," ">>), JStr(<<" ","h","t","t","p","s",":","/","/","b",".","i","o","/","a","-","l","o","n","g","-","p","a","t","h","/","o","f","/","c","h","a","r","s"," ">>),
         JStr(<<" ","D"," ">>), JStr(<<"v","i","d","e","o">>)),
    Item(Undef, GoodUrl, JNum(5), Undef),
    Item(JStr(<<"T">>), Undef, Undef, Undef),
    Item(JStr(<<"T">>), JStr(<<>>), Undef, Undef),
    Item(JStr(<<"T">>), JStr(<<" "," ">>), Undef, Undef),
    Item(Undef, JStr(<<" "," ">>), Undef, Undef),
    Item(JStr(<<"T">>), JNum(0), Undef, Undef),
    Item(JStr(<<"T">>), JNum(5), Undef, Undef),
    Item(JStr(<<"T">>), JBool(TRUE), Undef, Undef),
    Item(JStr(<<"T">>), Obj(<<>>), Undef, Undef),
    Item(JNum(3), Undef, Undef, Undef),
    Item(JNum(3), GoodUrl, Undef, Undef),
    Obj(<<>>), JNull, JNum(5), JStr(<<"h","t","t","p","s",":","/","/","a",".","i","o">>) }

\* 13 items: the first without a URL, the second of an unknown type
LongList ==
  [i \in 1..LongItems |->
     IF i = 1 THEN Item(JStr(<<"T">>), Undef, Undef, Undef)
     ELSE IF i = 2 THEN Item(JStr(<<"T">>), GoodUrl, Undef, JStr(<<"b","o","o","k">>))
     ELSE Item(JStr(<<"T">>), JStr(<<"h","t","t","p","s",":","/","/","c",".","i","o","/">> \o NatToString(i)), Undef,
               JStr(<<"v","i","d","e","o">>))]

ItemLists ==
  { <<r>> : r \in ItemInputs }
  \cup { <<>>, LongList,
         << Item(JStr(<<"T">>), Undef, Undef, Undef),
            Item(JStr(<<"U">>), GoodUrl, Undef, JStr(<<"t","o","o","l">>)),
            Item(JStr(<<"V">>), JStr(<<>>), Undef, Undef),
            Item(Undef, GoodUrl, Undef, Undef) >> }

Listing(list) == Obj(<< <<<<"r","e","s","o","u","r","c","e","s">>, JArr(list)>> >>)

\* the texts the model may return
ResTexts ==
  { <<CJson(Listing(list))>> : list \in ItemLists }
  \cup
  { <<CFenceJson, CWs, CJson(Listing(LongList)), CWs, CFence>>,
    <<CProse, CJson(Listing(LongList)), CProse>>,
    <<CJson(JArr(<<Listing(LongList)>>))>>,
    <<CJson(Obj(<< <<<<"r","e","s","o","u","r","c","e","s">>, JStr(<<"n","o","n","e">>)>> >>))>>,
    <<CJson(Obj(<<>>))>>, <<CJson(JNull)>>, <<CJson(JNum(5))>>,
    <<CJson(JArr(<<>>))>>, <<CJson(JStr(<<"s","o","r","r","y">>))>>,
    <<>>, <<CWs>>, <<CProse>>, <<CProseR, CProseL>>, <<CProseL>>,
    <<CProseL, CProseR>>,
    <<CProseL, CJson(Listing(LongList))>>,
    <<CJson(Listing(LongList)), CJson(Listing(<<>>))>> }

UpstreamOutcomes ==
  { Upstream("network", 0, "none", <<>>),
    Upstream("badbody", 200, "none", <<>>) }
  \cup { Upstream("resp", s, e, <<>>) :
           s \in {200, 404, 429, 503}, e \in {"blank", "notjson", "nocandidates"} }
  \cup { Upstream("resp", 200, e, t) : e \in {"text", "inline"}, t \in ResTexts }
  \cup { Upstream("resp", 503, "text", <<CJson(Listing(LongList))>>) }

-----------------------------------------------------------------------------
(* The handler POST of /api/resources *)

\* the response is sent
ResRespond(r) ==
  /\ resPc' = "done"
  /\ resResponse' = r

\* POST up to its pending fetch
ResReceive(body) ==
  /\ resPc = "idle"
  /\ resBody' = body
  /\ UNCHANGED <<googleKey, resUpstream, vars, clientVars, limiterVars, restVars>>
  /\ IF ~googleKey
     THEN ResRespond(ResResponse(500, ErrorBody(RE_missingKey)))
          /\ UNCHANGED resCalls
     ELSE IF destructureThrows(bodyOrBlank(body))
     THEN ResRespond(ResResponse(500, ErrorBody(RE_destructure)))
          /\ UNCHANGED resCalls
     ELSE IF normalizeQ(Get(bodyOrBlank(body), <<"q">>)) = <<>>
     THEN ResRespond(ResResponse(400, ErrorBody(RE_missingQ)))
          /\ UNCHANGED resCalls
     ELSE /\ resPc' = "await"
          /\ resCalls' = 1
          /\ UNCHANGED resResponse

\* the fetch returns: read, parse, shape, respond
ResReturns(u) ==
  /\ resPc = "await"
  /\ resUpstream' = u
  /\ ResRespond(answer(u))
  /\ UNCHANGED <<googleKey, resBody, resCalls, vars, clientVars, limiterVars, restVars>>

\* the server takes the next request
ResNextRequest ==
  /\ resPc = "done"
  /\ resPc' = "idle"
  /\ resBody' = <<>>
  /\ resCalls' = 0
  /\ resUpstream' = NoUpstream
  /\ resResponse' = ResNone
  /\ UNCHANGED <<googleKey, vars, clientVars, limiterVars, restVars>>

ResourcesInit ==
  /\ ResourcesIdle
  /\ googleKey \in BOOLEAN
  /\ GenerateIdle /\ apiKey = TRUE
  /\ ClientIdle
  /\ LimiterIdle
  /\ RestIdle

ResourcesNext ==
  \/ \E body \in ResBodies : ResReceive(body)
  \/ \E u \in UpstreamOutcomes : ResReturns(u)
  \/ ResNextRequest

ResourcesSpec == ResourcesInit /\ [][ResourcesNext]_allVars

-----------------------------------------------------------------------------
(* Properties of the resource-discovery endpoint *)

ResDone == resPc = "done"

\* the resources of the response body
Listed == Get(resResponse.body, <<"r","e","s","o","u","r","c","e","s">>)

\* the resources the model text of this request offers, unshaped
Offered == coerceArray(Get(parseText(textOf(resUpstream)).value, <<"r","e","s","o","u","r","c","e","s">>))

SixTypes == KnownTypes \cup {JStr(<<"w","e","b","s","i","t","e">>)}

\* C16: every 200 response of POST /api/resources lists at most 12
\* resources, each with a non-empty url, a type among video, course, thread,
\* paper, tool and website, and the source 'gemini'.
C16_ShapedResources ==
  (ResDone /\ resResponse.status = 200) =>
     /\ IsArr(Listed)
     /\ Len(Listed.a) <= 12
     /\ \A i \in 1..Len(Listed.a) :
           /\ IsStr(Get(Listed.a[i], <<"u","r","l">>))
           /\ Get(Listed.a[i], <<"u","r","l">>).s # <<>>
           /\ Get(Listed.a[i], <<"t","y","p","e">>) \in SixTypes
           /\ Get(Listed.a[i], <<"s","o","u","r","c","e">>) = JStr(<<"g","e","m","i","n","i">>)

\* 13 resources were offered, the first without URL and the second of an
\* unknown type: 11 are listed and the first of them is a website
C16_Witness ==
  /\ ResDone /\ resResponse.status = 200
  /\ Len(Offered) = LongItems
  /\ ~hasUrl(Offered[1])
  /\ Get(Offered[2], <<"t","y","p","e">>) \notin SixTypes
  /\ Len(Listed.a) = 11
  /\ Get(Listed.a[1], <<"t","y","p","e">>) = JStr(<<"w","e","b","s","i","t","e">>)

\* the body carries an error string next to an empty resource list
ErrorWithEmptyList ==
  /\ Listed = JArr(<<>>)
  /\ IsStr(Get(resResponse.body, <<"e","r","r","o","r">>))
  /\ Get(resResponse.body, <<"e","r","r","o","r">>).s # <<>>

\* the body has a q that is missing, no string or blank
BlankQ(body) ==
  /\ ~destructureThrows(bodyOrBlank(body))
  /\ normalizeQ(Get(bodyOrBlank(body), <<"q">>)) = <<>>

\* neither the text nor its brace slice parses as JSON
Unparseable(t) ==
  ~parsesAsJson(t) /\ (hasSlice(t) => braceParse(t) = JNull)

UpstreamAnswered == ResDone /\ resUpstream.kind = "resp"

\* C17: a request makes at most one upstream call; a blank or missing q is
\* answered 400 without a call, an upstream status outside 2xx with that
\* status, and each of these, any other failure and a model text that does
\* not parse as JSON with an error string next to an empty resource list.
C17_ExplicitFailure ==
  /\ resCalls <= 1
  /\ (ResDone /\ googleKey /\ BlankQ(resBody)) =>
        (resResponse.status = 400 /\ resCalls = 0 /\ ErrorWithEmptyList)
  /\ (UpstreamAnswered /\ ~respOk(resUpstream.status)) =>
        (resResponse.status = resUpstream.status /\ ErrorWithEmptyList)
  /\ (ResDone /\ resResponse.status # 200) => ErrorWithEmptyList
  /\ (UpstreamAnswered /\ respOk(resUpstream.status)
        /\ Unparseable(textOf(resUpstream))) => ErrorWithEmptyList

-----------------------------------------------------------------------------
(* The client page, CareerPathExplorer.  React runs the handler of a click  *)
(* or key press and the rendering and effects it causes before the next     *)
(* event is handled; the state set in the continuation of an await is       *)
(* rendered at once here, the effects it causes run in a later step, which  *)
(* comes before the next event is handled.                                  *)

\* what the client leaves alone
notClient == <<vars, resourcesVars, limiterVars, restVars>>

\* number of nodes the user grows
MaxNodes == 3

RootId == 1

\* a pending generation: kind "initial" or "next", the node it is for
Generation(kind, node) == [kind |-> kind, node |-> node]

\* a pending fetchResources call: phase "fetch" (await fetch) or "body"
\* (await res.json()), ok is res.ok once the response has arrived
Request(node, phase, ok) == [node |-> node, phase |-> phase, ok |-> ok]

\* the resources /api/resources lists for a node
ListFor(id) == << [id |-> "gem-0", node |-> id] >>

P_failed  == "Failed to fetch resources"
P_request == "Request failed"
P_server  == "Gemini API error"

\* the state the effect reads and writes
Panel(e, f, a, r, l, x) ==
  [effectNode |-> e, inflight |-> f, aborted |-> a, resources |-> r,
   resourcesLoading |-> l, resourcesError |-> x]

PanelNow ==
  Panel(effectNode, inflight, aborted, resources, resourcesLoading,
        resourcesError)

SetPanel(s) ==
  /\ effectNode' = s.effectNode
  /\ inflight' = s.inflight
  /\ aborted' = s.aborted
  /\ resources' = s.resources
  /\ resourcesLoading' = s.resourcesLoading
  /\ resourcesError' = s.resourcesError

\* the requests of the effect that ran last
ownRequests(s) == {r \in s.inflight : r.node = s.effectNode}

\* variant: the cleanup does not abort
cleanup_noAbort(s) == s

\* return () => ctrl.abort(): the request of the effect that ran last is
\* no longer pending
cleanup(s) ==
  [s EXCEPT !.inflight = @ \ ownRequests(s),
            !.aborted = @ \cup {r.node : r \in ownRequests(s)}]

\* the effect body for node n up to the pending fetch
startEffect(s, n) ==
  IF n = NoNode THEN [s EXCEPT !.effectNode = 0, !.resources = <<>>]
  ELSE [s EXCEPT !.effectNode = n.id,
                 !.inflight = @ \cup {Request(n.id, "fetch", FALSE)},
                 !.resourcesLoading = TRUE,
                 !.resourcesError = ""]

\* fetchResources of an aborted request goes on: a pending fetch rejects
\* with an AbortError, which the catch ignores; a pending res.json() rejects
\* too, its .catch yields {} and the lines after it run; finally
afterAbort(s, old) ==
  IF old = {} THEN s
  ELSE [s EXCEPT
          !.resources =
             IF \E r \in old : r.phase = "body" /\ r.ok THEN <<>> ELSE @,
          !.resourcesError =
             IF \E r \in old : r.phase = "body" /\ ~r.ok THEN P_request ELSE @,
          !.resourcesLoading = FALSE]

\* the effect of [currentNode?.id]: when the id differs from the one it last
\* ran for, the cleanup, then the effect body, then what the aborted call
\* still does
runEffect(s, n) ==
  IF n.id = s.effectNode THEN s
  ELSE afterAbort(startEffect(cleanup(s), n), ownRequests(s) \ cleanup(s).inflight)

\* variant: isGenerating is not set
StartGeneration_unflagged(g) ==
  /\ generations' = Append(generations, g)
  /\ UNCHANGED isGenerating

\* setIsGenerating(true) and the call of the generator
StartGeneration(g) ==
  /\ generations' = Append(generations, g)
  /\ isGenerating' = TRUE

\* no effect is waiting to run
EffectsFlushed == effectNode = currentNode.id

\* the submit button of ProfileForm, disabled while isLoading
SubmitProfile ==
  /\ EffectsFlushed
  /\ step = "profile"
  /\ ~isGenerating
  /\ userProfile' = "profile"
  /\ StartGeneration(Generation("initial", PathNode(RootId, 0, 0)))
  /\ created' = IF created = 0 THEN 1 ELSE created
  /\ UNCHANGED <<step, currentNode, pathHistory, activePaths, selectedOption,
                 customInput, panelVars, notClient>>

Options == {"Learn theory", "Join a band"}

\* the option buttons and the custom field are rendered in the exploration
\* step for a current node while isGenerating is false
McqShown ==
  /\ EffectsFlushed
  /\ step = "exploration" /\ currentNode # NoNode /\ ~isGenerating

\* handleOptionSelect
OptionSelect(option) ==
  /\ McqShown
  /\ selectedOption' = option
  /\ UNCHANGED <<step, userProfile, currentNode, pathHistory, activePaths, isGenerating,
                 customInput, generations, created, panelVars, notClient>>

\* onChange of the custom field
TypeCustom(text) ==
  /\ McqShown
  /\ customInput' = text
  /\ UNCHANGED <<step, userProfile, currentNode, pathHistory, activePaths, isGenerating,
                 selectedOption, generations, created, panelVars, notClient>>

\* handleNodeSelection up to its first await
handleNodeSelection ==
  /\ currentNode # NoNode /\ userProfile # ""
  /\ StartGeneration(Generation("next",
        PathNode(created + 1, currentNode.level + 1, currentNode.id)))
  /\ created' = created + 1

\* handleConfirmSelection; the button is rendered when an option is
\* selected and isGenerating is false
ConfirmSelection ==
  /\ McqShown
  /\ created < MaxNodes
  /\ selectedOption # "" /\ ~isGenerating
  /\ handleNodeSelection
  /\ selectedOption' = ""
  /\ UNCHANGED <<step, userProfile, currentNode, pathHistory, activePaths, customInput,
                 panelVars, notClient>>

\* handleCustomSubmit, by the button or the Enter key
CustomSubmit ==
  /\ McqShown
  /\ created < MaxNodes
  /\ trim(customInput) # <<>> /\ ~isGenerating
  /\ handleNodeSelection
  /\ customInput' = <<>>
  /\ UNCHANGED <<step, userProfile, currentNode, pathHistory, activePaths, selectedOption,
                 panelVars, notClient>>

\* the generator resolves and the handler goes on after its await
GenerationResolves ==
  /\ generations # <<>>
  /\ generations' = Tail(generations)
  /\ currentNode' = Head(generations).node
  /\ IF Head(generations).kind = "initial"
     THEN /\ pathHistory' = <<Head(generations).node>>
          /\ step' = "exploration"
          /\ UNCHANGED activePaths
     ELSE /\ pathHistory' = Append(pathHistory, Head(generations).node)
          /\ activePaths' = IF Head(generations).node.level % 2 = 0
                            THEN Append(activePaths, Head(generations).node)
                            ELSE activePaths
          /\ UNCHANGED step
  /\ isGenerating' = FALSE
  /\ UNCHANGED <<userProfile, selectedOption, customInput, created, panelVars,
                 notClient>>

\* variant: no finally block
GenerationFails_flagKept ==
  /\ generations # <<>>
  /\ Head(generations).kind = "next"
  /\ generations' = Tail(generations)
  /\ UNCHANGED <<isGenerating, step, userProfile, currentNode, pathHistory,
                 activePaths, selectedOption, customInput, created, panelVars,
                 notClient>>

\* the dynamic import of handleNodeSelection rejects: catch, finally
GenerationFails ==
  /\ generations # <<>>
  /\ Head(generations).kind = "next"
  /\ generations' = Tail(generations)
  /\ isGenerating' = FALSE
  /\ UNCHANGED <<step, userProfile, currentNode, pathHistory, activePaths, selectedOption,
                 customInput, created, panelVars, notClient>>

\* pathHistory.findIndex((node) => node.id === nodeId), counted from 1;
\* 0 when no node has the id
findIndex(history, id) ==
  IF \E i \in 1..Len(history) : history[i].id = id
  THEN CHOOSE i \in 1..Len(history) :
         history[i].id = id /\ \A j \in 1..(i - 1) : history[j].id # id
  ELSE 0

\* variant: the slice keeps the node after the clicked one as well
historyUpTo_oneMore(id) ==
  SubSeq(pathHistory, 1,
         IF findIndex(pathHistory, id) < Len(pathHistory)
         THEN findIndex(pathHistory, id) + 1 ELSE Len(pathHistory))

\* pathHistory.slice(0, nodeIndex + 1)
historyUpTo(id) == SubSeq(pathHistory, 1, findIndex(pathHistory, id))

\* handleBacktrack by a click on a node of the tree, and the effect of the
\* rendering it causes
Backtrack(id) ==
  /\ EffectsFlushed
  /\ step = "exploration"
  /\ IF findIndex(pathHistory, id) # 0
     THEN /\ pathHistory' = historyUpTo(id)
          /\ currentNode' = historyUpTo(id)[Len(historyUpTo(id))]
          /\ SetPanel(runEffect(PanelNow, historyUpTo(id)[Len(historyUpTo(id))]))
     ELSE UNCHANGED <<pathHistory, currentNode, panelVars>>
  /\ UNCHANGED <<step, userProfile, activePaths, isGenerating, selectedOption,
                 customInput, generations, created, notClient>>

\* the effects of a rendering caused outside an event run
FlushEffects ==
  /\ ~EffectsFlushed
  /\ SetPanel(runEffect(PanelNow, currentNode))
  /\ UNCHANGED <<pageVars, notClient>>

\* the response of /api/resources arrives: await fetch resolves
HeadersArrive(r, ok) ==
  /\ r \in inflight /\ r.phase = "fetch"
  /\ inflight' = (inflight \ {r}) \cup {Request(r.node, "body", ok)}
  /\ UNCHANGED <<resources, resourcesLoading, resourcesError, effectNode,
                 aborted, pageVars, notClient>>

\* await fetch rejects for a reason other than the abort: catch, finally
FetchRejects(r) ==
  /\ r \in inflight /\ r.phase = "fetch"
  /\ inflight' = inflight \ {r}
  /\ resourcesError' = P_failed
  /\ resourcesLoading' = FALSE
  /\ UNCHANGED <<resources, effectNode, aborted, pageVars, notClient>>

\* what res.json() may deliver: "list" is {resources: ListFor(node)},
\* "empty" is {resources: []}, "error" is {resources: [], error}, "none"
\* is a body that is no JSON (the .catch yields {})
BodyKinds == {"list", "empty", "error", "none"}

\* await res.json() settles and fetchResources runs to its end
BodyArrives(r, data) ==
  /\ r \in inflight /\ r.phase = "body"
  /\ inflight' = inflight \ {r}
  /\ IF ~r.ok
     THEN /\ resourcesError' = IF data = "error" THEN P_server ELSE P_request
          /\ UNCHANGED resources
     ELSE /\ resources' = IF data = "list" THEN ListFor(r.node) ELSE <<>>
          /\ UNCHANGED resourcesError
  /\ resourcesLoading' = FALSE
  /\ UNCHANGED <<effectNode, aborted, pageVars, notClient>>

ClientNext ==
  \/ SubmitProfile
  \/ \E option \in Options : OptionSelect(option)
  \/ \E text \in {<<>>, <<" "," ">>, <<"d","r","u","m","s">>} : TypeCustom(text)
  \/ ConfirmSelection
  \/ CustomSubmit
  \/ GenerationResolves
  \/ GenerationFails
  \/ \E id \in 1..MaxNodes : Backtrack(id)
  \/ FlushEffects
  \/ \E r \in inflight : \E ok \in BOOLEAN : HeadersArrive(r, ok)
  \/ \E r \in inflight : FetchRejects(r)
  \/ \E r \in inflight : \E data \in BodyKinds : BodyArrives(r, data)

ClientInit ==
  /\ ClientIdle
  /\ GenerateIdle /\ apiKey = TRUE
  /\ ResourcesIdle /\ googleKey = TRUE
  /\ LimiterIdle
  /\ RestIdle

ClientSpec == ClientInit /\ [][ClientNext]_allVars

\* the awaited call of a pending generation returns or throws
GenerationEnds == GenerationResolves \/ GenerationFails

\* the client page when every pending generation call comes to an end
ClientLiveSpec == ClientSpec /\ WF_allVars(GenerationEnds)
-----------------------------------------------------------------------------
(* Properties of the client page *)

\* the pending requests are at most one, and it is the request of the
\* effect that ran last
OneRequest ==
  /\ Cardinality(inflight) <= 1
  /\ \A r \in inflight : r.node = effectNode

\* the step writes a list into the state resources
Writes == resources' # resources

\* every resource the step leaves in the state was listed for node id
WrittenFor(id) == \A i \in 1..Len(resources') : resources'[i].node = id

\* C18 as claimed: at most one resource request is pending, the one of the
\* current effect, and a step that writes the resources state writes the
\* list of the node that is current at that time.
C18_AbortBeforeNext ==
  [][OneRequest' /\ (Writes => WrittenFor(currentNode.id))]_clientVars

\* C18: at most one resource request is pending, the one of the effect that
\* ran last (its cleanup aborted the one before), and a step that writes the
\* resources state writes the list of the node that effect ran for.
C18_AbortOnEffect ==
  [][OneRequest' /\ (Writes => WrittenFor(effectNode))]_clientVars

\* the request of the root was aborted and the list of the node grown from
\* it has been written
C18_Witness ==
  /\ RootId \in aborted
  /\ currentNode.id = 2 /\ effectNode = 2
  /\ resources = ListFor(2)
  /\ inflight = {}

\* C19: at most one node generation is pending at any time, and while one
\* is pending isGenerating is true.
C19_OneGeneration ==
  /\ Len(generations) <= 1
  /\ generations # <<>> => isGenerating

\* a generation started by a selection is pending and the user has clicked
\* on the tree meanwhile
C19_Witness ==
  /\ Len(generations) = 1
  /\ Head(generations).kind = "next"
  /\ currentNode.id # Head(generations).node.parentId

-----------------------------------------------------------------------------
(* The request-rate counter of the resume-analysis endpoint, POST /api/res *)

RATE_LIMIT_REQUESTS == 10
RATE_LIMIT_WINDOW   == 3600000

\* number of requests let through in one behaviour
MaxAdmitted == 12

\* the times, in milliseconds, at which requests arrive
Instants ==
  { 0, RATE_LIMIT_WINDOW, RATE_LIMIT_WINDOW + 1, 2 * RATE_LIMIT_WINDOW + 2 }

\* what the limiter leaves alone
notLimiter == <<vars, resourcesVars, clientVars, restVars>>

\* checkRateLimit(key): the value returned
allowed(record, t) ==
  \/ record = NoRecord
  \/ t > record.resetTime
  \/ record.count < RATE_LIMIT_REQUESTS

\* checkRateLimit(key): the record of the key after the call
counted(record, t) ==
  IF record = NoRecord \/ t > record.resetTime
  THEN [count |-> 1, resetTime |-> t + RATE_LIMIT_WINDOW]
  ELSE IF record.count >= RATE_LIMIT_REQUESTS THEN record
  ELSE [record EXCEPT !.count = @ + 1]

AdmittedTotal == Len(admitted["10.0.0.1"]) + Len(admitted["anonymous"])

\* POST up to the read of the form data: the rate check, then either the
\* 429 response or the processing of the file
RateRequest(key) ==
  /\ AdmittedTotal < MaxAdmitted
  /\ rateLimitStore' = [rateLimitStore EXCEPT ![key] = counted(@, now)]
  /\ IF allowed(rateLimitStore[key], now)
     THEN /\ admitted' = [admitted EXCEPT ![key] = Append(@, now)]
          /\ lastRequest' = [key |-> key, status |-> 0, processed |-> TRUE]
     ELSE /\ lastRequest' = [key |-> key, status |-> 429, processed |-> FALSE]
          /\ UNCHANGED admitted
  /\ UNCHANGED <<now, notLimiter>>

\* time passes
Tick(t) ==
  /\ t > now
  /\ now' = t
  /\ UNCHANGED <<rateLimitStore, admitted, lastRequest, notLimiter>>

LimiterInit ==
  /\ LimiterIdle
  /\ GenerateIdle /\ apiKey = TRUE
  /\ ResourcesIdle /\ googleKey = TRUE
  /\ ClientIdle
  /\ RestIdle

LimiterNext ==
  \/ \E key \in RateKeys : RateRequest(key)
  \/ \E t \in Instants : Tick(t)

LimiterSpec == LimiterInit /\ [][LimiterNext]_allVars

-----------------------------------------------------------------------------
(* Properties of the request-rate counter *)

\* the requests of a key let through from the i-th on, up to one hour later
WithinHour(key, i) ==
  { j \in i..Len(admitted[key]) :
      admitted[key][j] - admitted[key][i] < RATE_LIMIT_WINDOW }

\* C20: for every key, any interval of one hour holds at most 10 requests
\* that were let through, and a request answered 429 is not processed.
C20_RollingCap ==
  /\ \A key \in RateKeys : \A i \in 1..Len(admitted[key]) :
        Cardinality(WithinHour(key, i)) <= 10
  /\ lastRequest.status = 429 => ~lastRequest.processed

-----------------------------------------------------------------------------
(* The path of the exploration *)

\* the history is a chain: it starts at the root, which has level 0 and no
\* parent, and every later node is one level below the node before it and
\* has it as parent
Chain(history) ==
  /\ history # <<>>
  /\ history[1].level = 0 /\ history[1].parentId = 0
  /\ \A i \in 2..Len(history) :
       /\ history[i].level = history[i - 1].level + 1
       /\ history[i].parentId = history[i - 1].id

\* C21: in every state of the exploration step, a backtrack during a
\* pending generation included, pathHistory is a chain from the root and
\* currentNode is its last node.
C21_HistoryChain ==
  step = "exploration" =>
    /\ Chain(pathHistory)
    /\ currentNode = pathHistory[Len(pathHistory)]

\* the position of the node with the id in the history
IndexOf(id) == CHOOSE i \in 1..Len(pathHistory) : pathHistory[i].id = id

\* the id is the id of a node of the history
InHistory(id) == \E i \in 1..Len(pathHistory) : pathHistory[i].id = id

\* C22: a backtrack to a node of pathHistory cuts the history after that
\* node and makes it the current node; a backtrack to an id that is not in
\* pathHistory leaves both as they are; userProfile and activePaths are left
\* alone either way.
C22_Backtrack ==
  [][\A id \in 1..MaxNodes : Backtrack(id) =>
       /\ userProfile' = userProfile /\ activePaths' = activePaths
       /\ IF InHistory(id)
          THEN /\ Len(pathHistory') = IndexOf(id)
               /\ \A i \in 1..IndexOf(id) : pathHistory'[i] = pathHistory[i]
               /\ currentNode' = pathHistory[IndexOf(id)]
          ELSE pathHistory' = pathHistory /\ currentNode' = currentNode]_allVars

\* the history was two nodes longer and has been cut back to the root
C22_Witness ==
  /\ step = "exploration"
  /\ activePaths # <<>>
  /\ pathHistory = <<PathNode(RootId, 0, 0)>>
  /\ currentNode = PathNode(RootId, 0, 0)
  /\ generations = <<>>

-----------------------------------------------------------------------------
(* The loading flag of the resources panel *)

\* C26: whenever a request for the resources of the current node is pending
\* and not aborted, resourcesLoading is true; the end of an aborted earlier
\* request does not reset it.
C26_LoadingWhilePending ==
  (\E r \in inflight : r.node = currentNode.id) => resourcesLoading

\* C27: once a generation has been started, isGenerating gets back to
\* false, given that the generation call returns or throws.
C27_GeneratingEnds == (generations # <<>>) ~> ~isGenerating

\* the generation of the second node has returned and the flag is reset
C27_Witness ==
  /\ Len(pathHistory) = 2
  /\ generations = <<>>
  /\ ~isGenerating

-----------------------------------------------------------------------------
(* Resource normalisation, field by field *)

\* the raw resources normalizeNodeJson maps over
InputResources == rawResOf(Get(candidateOf(json), <<"r","e","s","o","u","r","c","e","s">>))

\* the first of the two values that is a string
FirstString(a, b) == IF IsStr(a) THEN a ELSE IF IsStr(b) THEN b ELSE Undef

\* the title the precedence gives an object: title, name, label, the bare
\* hostname of the URL, 'Resource'
PrecedenceTitle(x, url) ==
  IF IsStr(Get(x, <<"t","i","t","l","e">>)) THEN Get(x, <<"t","i","t","l","e">>)
  ELSE IF IsStr(FirstString(Get(x, <<"n","a","m","e">>), Get(x, <<"l","a","b","e","l">>)))
  THEN FirstString(Get(x, <<"n","a","m","e">>), Get(x, <<"l","a","b","e","l">>))
  ELSE IF IsStr(url) /\ ParseURL(url.s).ok
  THEN JStr(stripWww(ParseURL(url.s).hostname))
  ELSE JStr(<<"R","e","s","o","u","r","c","e">>)

\* the difficulty the precedence keeps
PrecedenceDifficulty(d) ==
  IF IsStr(d) /\ toLowerCase(d.s) \in Difficulties
  THEN JStr(toLowerCase(d.s)) ELSE Undef

\* out is what the precedence gives for the raw resource x
FollowsPrecedence(x, out) ==
  IF IsStr(x)
  THEN /\ out.kind = "res"
       /\ Get(out.res, <<"d","e","s","c","r","i","p","t","i","o","n">>) = JStr(<<>>)
       /\ IF startsWith(x.s, <<"h","t","t","p">>)
          THEN /\ Get(out.res, <<"t","i","t","l","e">>) = JStr(<<"R","e","s","o","u","r","c","e">>)
               /\ Get(out.res, <<"u","r","l">>) = x
          ELSE /\ Get(out.res, <<"t","i","t","l","e">>) = x
               /\ Get(out.res, <<"u","r","l">>) = Undef
  ELSE IF IsObj(x) \/ IsArr(x)
  THEN /\ out.kind = "res"
       /\ Get(out.res, <<"u","r","l">>) = FirstString(Get(x, <<"u","r","l">>), Get(x, <<"l","i","n","k">>))
       /\ Get(out.res, <<"t","i","t","l","e">>)
            = PrecedenceTitle(x, FirstString(Get(x, <<"u","r","l">>), Get(x, <<"l","i","n","k">>)))
       /\ Get(out.res, <<"d","e","s","c","r","i","p","t","i","o","n">>)
            = Coalesce(FirstString(Get(x, <<"d","e","s","c","r","i","p","t","i","o","n">>), Get(x, <<"s","u","m","m","a","r","y">>)),
                       JStr(<<>>))
       /\ Get(out.res, <<"d","i","f","f","i","c","u","l","t","y">>) = PrecedenceDifficulty(Get(x, <<"d","i","f","f","i","c","u","l","t","y">>))
  ELSE out.kind = "null"

\* C23: normalizeResource follows the field precedence: a string with the
\* prefix http becomes the url of a resource titled 'Resource', any other
\* string the title of a resource without url; an object gets its url from
\* url or link, its title from title, name, label, the bare hostname or
\* 'Resource', its description from description or summary, and keeps a
\* difficulty only when it is one of the three levels; any other value is
\* rejected.
C23_FieldPrecedence ==
  normalized.ran =>
    \A i \in 1..Len(InputResources) :
      FollowsPrecedence(InputResources[i], normalizeResource(InputResources[i], 0))

\* the type the hostname h of a URL gives
TypeOfHost(h) ==
  IF \E w \in {<<"y","o","u","t","u","b","e",".","c","o","m">>, <<"y","o","u","t","u",".","b","e">>, <<"v","i","m","e","o",".","c","o","m">>} : includes(h, w)
  THEN T_video
  ELSE IF \E w \in {<<"c","o","u","r","s","e","r","a",".","o","r","g">>, <<"u","d","e","m","y",".","c","o","m">>, <<"e","d","x",".","o","r","g">>, <<"c","l","a","s","s">>,
                    <<"c","o","u","r","s","e">>} : includes(h, w)
  THEN T_course
  ELSE IF \E w \in {<<"g","i","t","h","u","b",".","c","o","m">>, <<"n","p","m","j","s",".","c","o","m">>, <<"t","o","o","l">>} : includes(h, w)
  THEN T_tool
  ELSE T_website

\* the type of the resource is not read from the raw resource x
TypeInferred(x) ==
  \/ IsStr(x)
  \/ ~IsStr(Get(x, <<"t","y","p","e">>))
  \/ toLowerCase(Get(x, <<"t","y","p","e">>).s) \notin ResourceTypes

\* out has the type of the hostname of its URL, website without a URL
TypedByHost(out) ==
  IF ~Truthy(Get(out.res, <<"u","r","l">>))
  THEN Get(out.res, <<"t","y","p","e">>) = JStr(T_website)
  ELSE ParseURL(Get(out.res, <<"u","r","l">>).s).ok =>
         Get(out.res, <<"t","y","p","e">>)
           = JStr(TypeOfHost(ParseURL(Get(out.res, <<"u","r","l">>).s).hostname))

\* C24: an inferred resource type is decided by the hostname of the URL,
\* video before course before tool before website, and is website without a
\* URL; the path and the query of the URL have no say.
C24_TypeByHostname ==
  normalized.ran =>
    \A i \in 1..Len(InputResources) :
      (TypeInferred(InputResources[i])
         /\ normalizeResource(InputResources[i], 0).kind = "res")
      => TypedByHost(normalizeResource(InputResources[i], 0))
-----------------------------------------------------------------------------
(* Profile extraction, POST /api/career/extract *)

\* what the programs modelled above leave to this one and the next
oldVars == <<vars, resourcesVars, clientVars, limiterVars>>

OldIdle ==
  /\ GenerateIdle /\ apiKey = TRUE
  /\ ResourcesIdle /\ googleKey = TRUE
  /\ ClientIdle
  /\ LimiterIdle

notExtract == <<oldVars, analysisVars, savedVars, gameVars>>

\* 8 * 1024 * 1024
MaxFileSize == 8388608

MinTextLength == 50

X_noFile   == "No resume file provided"
X_tooLarge == "File too large (max 8MB)"
X_noText   == "Could not read text from resume"
X_failed   == "Failed to parse resume"

\* formData.get("resume"): null, a string field or a File; "unreadable" is
\* a body req.formData() rejects
FormEntry(kind, size) == [kind |-> kind, size |-> size]

FormEntries ==
  { FormEntry("unreadable", 0), FormEntry("absent", 0), FormEntry("string", 0) }
  \cup { FormEntry("file", n) : n \in {0, 120, MaxFileSize - 1, MaxFileSize, MaxFileSize + 1} }

\* the text extractTextFromFile returns: chars characters between the
\* first and the last one that is no white space, pad of white space around
ResumeText(chars, pad) == [threw |-> FALSE, chars |-> chars, pad |-> pad]

ResumeTexts ==
  { [threw |-> TRUE, chars |-> 0, pad |-> 0] }
  \cup { ResumeText(n, p) : n \in {0, MinTextLength - 1, MinTextLength, MinTextLength + 1, 120},
                             p \in {0, 2} }

\* variant: only the empty text is refused
tooShort_emptyOnly(t) == t.chars + t.pad = 0

\* !text || text.trim().length < 50
tooShort(t) == t.chars + t.pad = 0 \/ t.chars < MinTextLength

Logged(ev, n, text) == [ev |-> ev, n |-> n, text |-> text]

RECURSIVE dropFences(_)
\* s.replace(/```json|```/g, "")
dropFences(t) ==
  IF t = <<>> THEN <<>>
  ELSE (IF IsFenceChunk(Head(t)) THEN <<>> ELSE <<Head(t)>>) \o dropFences(Tail(t))

stripFences(t) == trimText(dropFences(t))

\* z.string().default(""): undefined or a string
zodStringDefault(v) == v.k = "undef" \/ IsStr(v)

\* UserProfileSchema.parse(v) does not throw
UserProfileSchema(v) ==
  /\ IsObj(v)
  /\ zodStringDefault(Get(v, <<"c","u","r","r","e","n","t","S","i","t","u","a","t","i","o","n">>))
  /\ \/ Get(v, <<"i","n","t","e","r","e","s","t","s">>).k = "undef"
     \/ /\ IsArr(Get(v, <<"i","n","t","e","r","e","s","t","s">>))
        /\ \A i \in 1..Len(Get(v, <<"i","n","t","e","r","e","s","t","s">>).a) : IsStr(Get(v, <<"i","n","t","e","r","e","s","t","s">>).a[i])
  /\ zodStringDefault(Get(v, <<"e","x","p","e","r","i","e","n","c","e">>))
  /\ zodStringDefault(Get(v, <<"g","o","a","l","s">>))

\* extractProfileFromText returns for the model text t
profileParses(t) ==
  parsesAsJson(stripFences(t)) /\ UserProfileSchema(tryParseJson(stripFences(t)))

StudentProfile ==
  Obj(<< <<<<"c","u","r","r","e","n","t","S","i","t","u","a","t","i","o","n">>, JStr(<<"s","t","u","d","e","n","t">>)>>,
         <<<<"i","n","t","e","r","e","s","t","s">>, Strs(<<<<"m","u","s","i","c">>>>)>> >>)

\* what generateContent delivers: an exception or a text
ProfileTexts ==
  { <<CJson(StudentProfile)>>,
    <<CFenceJson, CWs, CJson(StudentProfile), CWs, CFence>>,
    <<CProse, CWs, CJson(StudentProfile)>>,
    <<>>,
    <<CJson(JNum(5))>>,
    <<CJson(Obj(<<>>))>>,
    <<CJson(Obj(<< <<<<"i","n","t","e","r","e","s","t","s">>, JStr(<<"m","u","s","i","c">>)>> >>))>>,
    <<CJson(Obj(<< <<<<"g","o","a","l","s">>, JNull>> >>))>> }

ExDone(status, error) ==
  /\ exPc' = "done"
  /\ exResponse' = ExResponse(status, error)

\* POST up to the await of extractTextFromFile
ExReceive(entry) ==
  /\ exPc = "idle"
  /\ exFile' = entry
  /\ IF entry.kind = "unreadable" THEN ExDone(500, X_failed) /\ UNCHANGED exLog
     ELSE IF entry.kind # "file" THEN ExDone(400, X_noFile) /\ UNCHANGED exLog
     ELSE IF entry.size > MaxFileSize
     THEN ExDone(413, X_tooLarge) /\ exLog' = Append(exLog, Logged("file", entry.size, <<>>))
     ELSE /\ exPc' = "reading"
          /\ exLog' = exLog \o << Logged("file", entry.size, <<>>),
                                   Logged("size", entry.size, <<>>) >>
          /\ UNCHANGED exResponse
  /\ UNCHANGED <<geminiKey, exCalls, notExtract>>

\* extractTextFromFile settles; the length guard; extractProfileFromText up
\* to the await of generateContent
ExTextReturns(t) ==
  /\ exPc = "reading"
  /\ IF t.threw THEN ExDone(500, X_failed) /\ UNCHANGED <<exLog, exCalls>>
     ELSE IF tooShort(t)
     THEN /\ ExDone(422, X_noText)
          /\ exLog' = Append(exLog, Logged("read", t.chars, <<>>))
          /\ UNCHANGED exCalls
     ELSE IF ~geminiKey
     THEN /\ ExDone(500, X_failed)
          /\ exLog' = exLog \o << Logged("read", t.chars, <<>>),
                                   Logged("text", t.chars, <<>>) >>
          /\ UNCHANGED exCalls
     ELSE /\ exPc' = "calling"
          /\ exCalls' = exCalls + 1
          /\ exLog' = exLog \o << Logged("read", t.chars, <<>>),
                                   Logged("text", t.chars, <<>>),
                                   Logged("call", exCalls + 1, <<>>) >>
          /\ UNCHANGED exResponse
  /\ UNCHANGED <<geminiKey, exFile, notExtract>>

\* generateContent rejects: the catch of POST
ExModelThrows ==
  /\ exPc = "calling"
  /\ ExDone(500, X_failed)
  /\ exLog' = Append(exLog, Logged("threw", exCalls, <<>>))
  /\ UNCHANGED <<geminiKey, exFile, exCalls, notExtract>>

\* generateContent resolves with the text t: stripFences, JSON.parse, the
\* schema, and the response
ExModelReturns(t) ==
  /\ exPc = "calling"
  /\ IF profileParses(t) THEN ExDone(200, "") ELSE ExDone(500, X_failed)
  /\ exLog' = Append(exLog, Logged("returned", exCalls, t))
  /\ UNCHANGED <<geminiKey, exFile, exCalls, notExtract>>

\* the next request arrives
ExNextRequest ==
  /\ exPc = "done"
  /\ exPc' = "idle"
  /\ exFile' = NoFile
  /\ exCalls' = 0
  /\ exLog' = <<>>
  /\ exResponse' = ExResponse(0, "")
  /\ UNCHANGED <<geminiKey, notExtract>>

ExtractInit ==
  /\ ExtractIdle /\ geminiKey \in BOOLEAN
  /\ OldIdle
  /\ AnalysisIdle /\ SavedIdle /\ GameIdle

ExtractNext ==
  \/ \E entry \in FormEntries : ExReceive(entry)
  \/ \E t \in ResumeTexts : ExTextReturns(t)
  \/ ExModelThrows
  \/ \E t \in ProfileTexts : ExModelReturns(t)
  \/ ExNextRequest

ExtractSpec == ExtractInit /\ [][ExtractNext]_allVars

-----------------------------------------------------------------------------
(* Properties of the profile extraction *)

\* the log holds an entry of the kind
Passed(ev) == \E i \in 1..Len(exLog) : exLog[i].ev = ev

\* the entries of the log, by kind, in the order they were made
Events == [i \in 1..Len(exLog) |-> exLog[i].ev]

\* the length of the text that was read, once it was
ReadChars == exLog[CHOOSE i \in 1..Len(exLog) : exLog[i].ev = "read"].n

\* C25: the model is called at most once per request, after the file guard
\* (400), the size guard (413) and the text guard (422) have passed in this
\* order, and a call that fails or whose answer does not parse ends the
\* request with 500 without a second call.
C25_GuardsThenOneCall ==
  /\ exCalls <= 1
  /\ exCalls = 1 =>
       /\ exFile.kind = "file" /\ exFile.size <= MaxFileSize
       /\ ReadChars >= MinTextLength
       /\ SubSeq(Events, 1, 5) = <<"file", "size", "read", "text", "call">>
  /\ (exPc = "done" /\ exFile.kind \in {"absent", "string"}) =>
       (exResponse.status = 400 /\ Events = <<>>)
  /\ (exPc = "done" /\ exFile.kind = "file" /\ exFile.size > MaxFileSize) =>
       (exResponse.status = 413 /\ Events = <<"file">>)
  /\ (exPc = "done" /\ Passed("read") /\ ReadChars < MinTextLength) =>
       (exResponse.status = 422 /\ Events = <<"file", "size", "read">>)
  /\ (exPc = "done" /\ Passed("threw")) => (exResponse.status = 500 /\ exCalls = 1)
  /\ (exPc = "done" /\ Passed("returned")) =>
       /\ exCalls = 1
       /\ exResponse.status = IF profileParses(exLog[Len(exLog)].text) THEN 200 ELSE 500

\* the answer of the only call did not parse and the request ended with 500
C25_Witness ==
  /\ exPc = "done" /\ exCalls = 1
  /\ Passed("returned") /\ ~profileParses(exLog[Len(exLog)].text)
  /\ exResponse.status = 500
-----------------------------------------------------------------------------
(* The model retry loop of the resume analysis, POST /api/res *)

notAnalysis == <<oldVars, extractVars, savedVars, gameVars>>

maxAttempts == 3

\* what stands in the way of the analysis: the 429 of the rate check, the
\* 400 of a missing file, a file over 10 MB, a file that is neither PDF nor
\* DOCX, a failed text extraction, or a text under 100 characters, and the
\* 500 of a resume entry that is a string (file.name is undefined)
Refusals == {"limited", "nofile", "field", "large", "format", "corrupt", "short"}

\* one chat.completions.create call: it throws, or its content is empty,
\* no JSON, the JSON null, a JSON object that lacks
\* professional_summary, or a complete JSON object
Contents == {"throws", "empty", "prose", "null", "partial", "object"}

\* the try block of the loop runs to its break
parsed(content) == content \in {"null", "partial", "object"}

\* variant: one more attempt
exhausted_late(n) == n > maxAttempts

\* attempts >= maxAttempts
exhausted(n) == n >= maxAttempts

\* POST up to the first call of the loop; linked: the text of the resume
\* holds a LinkedIn profile URL
AnReceive(refusal, linked) ==
  /\ anPc = "idle"
  /\ IF refusal \in Refusals
     THEN /\ anPc' = "done"
          /\ anResponse' = IF refusal = "limited" THEN 429
                           ELSE IF refusal = "field" THEN 500 ELSE 400
          /\ UNCHANGED hasLinkedIn
     ELSE /\ anPc' = "calling"
          /\ hasLinkedIn' = linked
          /\ UNCHANGED anResponse
  /\ UNCHANGED <<attempts, anCalls, analysis, notAnalysis>>

\* the call settles.  A content that parses leaves the loop: the check of
\* the required fields reads a property of analysis, which throws for null
\* (the outer catch answers 500), and the response is sent.  Anything else
\* is caught in the loop.
AnCallReturns(content) ==
  /\ anPc = "calling"
  /\ anCalls' = Append(anCalls, content)
  /\ IF parsed(content)
     THEN /\ analysis' = content
          /\ anPc' = "done"
          /\ anResponse' = IF content = "null" THEN 500 ELSE 200
          /\ UNCHANGED attempts
     ELSE /\ attempts' = attempts + 1
          /\ IF exhausted(attempts + 1)
             THEN anPc' = "done" /\ anResponse' = 503
             ELSE anPc' = "waiting" /\ UNCHANGED anResponse
          /\ UNCHANGED analysis
  /\ UNCHANGED <<hasLinkedIn, notAnalysis>>

\* the pause of 1000 * attempts ms ends and the loop calls again
AnWaitEnds ==
  /\ anPc = "waiting"
  /\ attempts < maxAttempts
  /\ anPc' = "calling"
  /\ UNCHANGED <<hasLinkedIn, attempts, anCalls, analysis, anResponse, notAnalysis>>

\* the next request arrives
AnNextRequest ==
  /\ anPc = "done"
  /\ anPc' = "idle"
  /\ hasLinkedIn' = FALSE
  /\ attempts' = 0
  /\ anCalls' = <<>>
  /\ analysis' = "{}"
  /\ anResponse' = 0
  /\ UNCHANGED notAnalysis

AnalysisInit ==
  /\ AnalysisIdle
  /\ OldIdle
  /\ ExtractIdle /\ geminiKey = TRUE
  /\ SavedIdle /\ GameIdle

AnalysisNext ==
  \/ \E refusal \in Refusals \cup {"none"} : \E linked \in BOOLEAN :
       AnReceive(refusal, linked)
  \/ \E content \in Contents : AnCallReturns(content)
  \/ AnWaitEnds
  \/ AnNextRequest

AnalysisSpec == AnalysisInit /\ [][AnalysisNext]_allVars

-----------------------------------------------------------------------------
(* Properties of the retry loop *)

\* the calls that threw or whose content was empty or no JSON
Failed == {i \in 1..Len(anCalls) : anCalls[i] \in {"throws", "empty", "prose"}}

-----------------------------------------------------------------------------
(* The saved batch of the client, usePersistentResources *)

notSaved == <<oldVars, extractVars, analysisVars, gameVars>>

\* resources of one list saved for a node
MaxBatch == 2

SavedResource(id, title) == [id |-> id, title |-> title]

\* two resources share the id "a"
SomeResources ==
  { SavedResource("a", "Intro"), SavedResource("a", "Intro (2nd ed.)"),
    SavedResource("b", "Course") }

Batches == UNION { [1..n -> SomeResources] : n \in 0..MaxBatch }

\* list.some((r) => r.id === id)
someId(list, id) == \E i \in 1..Len(list) : list[i].id = id

RECURSIVE without(_, _)
\* history.filter((r) => !resources.some((nr) => nr.id === r.id))
without(history, batch) ==
  IF history = <<>> THEN <<>>
  ELSE (IF someId(batch, Head(history).id) THEN <<>> ELSE <<Head(history)>>)
       \o without(Tail(history), batch)

\* variant: the list of the node replaces the history
mergedHistory_replaced(history, batch) == batch

\* the resourceHistory saveResourcesForNode leaves
mergedHistory(history, batch) == without(history, batch) \o batch

\* no two positions of the list hold the same id
DistinctIds(list) ==
  \A i \in 1..Len(list) : \A j \in 1..Len(list) : list[i].id = list[j].id => i = j

RECURSIVE savedOf(_, _)
\* getSavedResources: history.filter((resource) => saved.has(resource.id))
savedOf(history, saved) ==
  IF history = <<>> THEN <<>>
  ELSE (IF Head(history).id \in saved THEN <<Head(history)>> ELSE <<>>)
       \o savedOf(Tail(history), saved)

getSavedResources == savedOf(resourceHistory, savedResources)

\* the updater of saveResource
saveResource(resource) ==
  /\ savedResources' = savedResources \cup {resource.id}
  /\ resourceHistory' = IF someId(resourceHistory, resource.id)
                        THEN resourceHistory
                        ELSE Append(resourceHistory, resource)
  /\ UNCHANGED <<resourceCollections, renderedSaved, batchesDistinct, notSaved>>

\* the updater of unsaveResource
unsaveResource(resourceId) ==
  /\ savedResources' = savedResources \ {resourceId}
  /\ UNCHANGED <<resourceCollections, resourceHistory, renderedSaved,
                 batchesDistinct, notSaved>>

\* toggleSaveResource reads the set of the rendering that created it
toggleSaveResource(resource) ==
  IF resource.id \in renderedSaved
  THEN unsaveResource(resource.id)
  ELSE saveResource(resource)

saveResourcesForNode(nodeId, batch) ==
  /\ resourceCollections' = [resourceCollections EXCEPT ![nodeId] = batch]
  /\ resourceHistory' = mergedHistory(resourceHistory, batch)
  /\ batchesDistinct' = (batchesDistinct /\ DistinctIds(batch))
  /\ UNCHANGED <<savedResources, renderedSaved, notSaved>>

\* clearAllResources; no list is in the history any more
clearAllResources ==
  /\ savedResources' = {}
  /\ resourceCollections' = [n \in NodeIds |-> <<>>]
  /\ resourceHistory' = <<>>
  /\ batchesDistinct' = TRUE
  /\ UNCHANGED <<renderedSaved, notSaved>>

\* the component renders with the state the updaters left
RenderSaved ==
  /\ renderedSaved # savedResources
  /\ renderedSaved' = savedResources
  /\ UNCHANGED <<savedResources, resourceCollections, resourceHistory,
                 batchesDistinct, notSaved>>

SavedInit ==
  /\ SavedIdle
  /\ OldIdle
  /\ ExtractIdle /\ geminiKey = TRUE
  /\ AnalysisIdle /\ GameIdle

SavedNext ==
  \/ \E resource \in SomeResources : saveResource(resource)
  \/ \E id \in {"a", "b"} : unsaveResource(id)
  \/ \E resource \in SomeResources : toggleSaveResource(resource)
  \/ \E nodeId \in NodeIds : \E batch \in Batches :
       saveResourcesForNode(nodeId, batch)
  \/ clearAllResources
  \/ RenderSaved

SavedSpec == SavedInit /\ [][SavedNext]_allVars

-----------------------------------------------------------------------------
(* Properties of the saved batch *)

\* the positions of getSavedResources that hold the id
EntriesOf(id) ==
  {i \in 1..Len(getSavedResources) : getSavedResources[i].id = id}

\* C29: every saved id is the id of a resource of resourceHistory, and
\* while no list saved for a node held an id twice getSavedResources holds
\* exactly one entry for each saved id.
C29_SavedInHistory ==
  /\ \A id \in savedResources : someId(resourceHistory, id)
  /\ batchesDistinct =>
       /\ Len(getSavedResources) = Cardinality(savedResources)
       /\ \A id \in savedResources : Cardinality(EntriesOf(id)) = 1

\* a saved resource was replaced in the history by the list of a node
C29_Witness ==
  /\ savedResources = {"a", "b"}
  /\ batchesDistinct
  /\ resourceHistory = <<SavedResource("b", "Course"),
                         SavedResource("a", "Intro (2nd ed.)")>>
  /\ resourceCollections["n1"] = <<SavedResource("a", "Intro (2nd ed.)")>>
-----------------------------------------------------------------------------
(* The progress of the client, useGameProgress *)

notGame == <<oldVars, extractVars, analysisVars, savedVars>>

\* the XP up to which actions are taken
MaxXP == 500

\* the ids of AVAILABLE_BADGES, in order
AVAILABLE_BADGES ==
  << "first-step", "explorer", "resource-collector", "path-master",
     "knowledge-seeker", "persistent-learner" >>

\* Math.floor(xp / 100) + 1
calculateLevel(xp) == (xp \div 100) + 1

\* variant: a badge is never taken as held
alreadyHas_never(p, id) == FALSE

\* newProgress.badges.some((b) => b.id === badgeTemplate.id)
alreadyHas(p, id) == \E i \in 1..Len(p.badges) : p.badges[i] = id

\* the switch of checkForNewBadges
shouldUnlock(p, id) ==
  CASE id = "first-step"         -> p.exploredPaths >= 1
    [] id = "explorer"           -> p.exploredPaths >= 5
    [] id = "resource-collector" -> p.xp >= 200
    [] id = "path-master"        -> p.level >= 5
    [] id = "knowledge-seeker"   -> p.completedQuizzes >= 3
    [] id = "persistent-learner" -> p.exploredPaths >= 10
    [] OTHER                     -> FALSE

RECURSIVE newBadgesFrom(_, _)
\* the badges checkForNewBadges pushes, from the i-th template on
newBadgesFrom(p, i) ==
  IF i > Len(AVAILABLE_BADGES) THEN <<>>
  ELSE (IF ~alreadyHas(p, AVAILABLE_BADGES[i]) /\ shouldUnlock(p, AVAILABLE_BADGES[i])
        THEN <<AVAILABLE_BADGES[i]>> ELSE <<>>)
       \o newBadgesFrom(p, i + 1)

checkForNewBadges(p) == newBadgesFrom(p, 1)

\* { ...newProgress, badges: [...prev.badges, ...newBadges] }
withBadges(p) == [p EXCEPT !.badges = @ \o checkForNewBadges(p)]

\* the updater of addXP
withXP(prev, amount) ==
  withBadges([prev EXCEPT !.xp = prev.xp + amount,
                          !.level = calculateLevel(prev.xp + amount)])

\* the updater of trackPathExplored
withPath(prev) == withBadges([prev EXCEPT !.exploredPaths = @ + 1])

\* the updater of trackQuizCompleted
withQuiz(prev) == withBadges([prev EXCEPT !.completedQuizzes = @ + 1])

SetProgress(p) ==
  /\ progress.xp < MaxXP
  /\ progress' = p
  /\ everBadges' = everBadges \cup {p.badges[i] : i \in 1..Len(p.badges)}
  /\ UNCHANGED notGame

addXP(amount) == SetProgress(withXP(progress, amount))

trackPathExplored == SetProgress(withXP(withPath(progress), 25))

trackResourceSaved == SetProgress(withXP(progress, 10))

trackQuizCompleted == SetProgress(withXP(withQuiz(progress), 50))

GameInit ==
  /\ GameIdle
  /\ OldIdle
  /\ ExtractIdle /\ geminiKey = TRUE
  /\ AnalysisIdle /\ SavedIdle

GameNext ==
  \/ \E amount \in {5, 100} : addXP(amount)
  \/ trackPathExplored
  \/ trackResourceSaved
  \/ trackQuizCompleted

GameSpec == GameInit /\ [][GameNext]_allVars

-----------------------------------------------------------------------------
(* Properties of the progress *)

\* C30: progress.badges holds no id twice, holds every badge it ever held,
\* and progress.level is floor(xp / 100) + 1.
C30_BadgesAndLevel ==
  /\ \A i \in 1..Len(progress.badges) : \A j \in 1..Len(progress.badges) :
       progress.badges[i] = progress.badges[j] => i = j
  /\ \A id \in everBadges : \E i \in 1..Len(progress.badges) : progress.badges[i] = id
  /\ \E q \in 0..((MaxXP + 100) \div 100) :
       /\ q * 100 <= progress.xp /\ progress.xp < (q + 1) * 100
       /\ progress.level = q + 1

\* level 5 is reached and several badges were unlocked on the way
C30_Witness ==
  /\ progress.level = 5
  /\ everBadges = {"first-step", "resource-collector", "path-master",
                   "knowledge-seeker"}
  /\ Len(progress.badges) = 4
=============================================================================
